---- MODULE Spec2Model ----
(***************************************************************************)
(* Verification model of the phantom-zone boolean FHE evaluator:           *)
(* LWE encryption / key switching (src/src/lwe.rs), the boolean evaluator, *)
(* its multi-party key aggregation and the PBS pipeline                    *)
(* (src/src/bool/evaluator.rs).                                            *)
(*                                                                         *)
(* Ciphertexts are sequences of residues; index 1 of a TLA+ sequence is    *)
(* index 0 of the Rust slice.  Randomness (uniform masks, Gaussian errors, *)
(* seeds) is a nondeterministic choice from small sample sets.             *)
(***************************************************************************)
EXTENDS Integers, Sequences, FiniteSets, TLC

VARIABLES
    lw,        \* state of the LWE primitive harness (encrypt / key switch / decrypt)
    ev,        \* state of the boolean evaluator, its keys and its ciphertexts
    mp         \* state of the multi-party protocol

vars == <<lw, ev, mp>>

-----------------------------------------------------------------------------
(* Arithmetic helpers                                                      *)

Min(a, b) == IF a <= b THEN a ELSE b
Max(a, b) == IF a >= b THEN a ELSE b
Abs(x) == IF x < 0 THEN -x ELSE x

RECURSIVE Pow(_, _)
Pow(b, e) == IF e = 0 THEN 1 ELSE b * Pow(b, e - 1)

\* f64::round on a non-negative quotient a/b: nearest integer, halves away from zero
RoundDiv(a, b) == (2 * a + b) \div (2 * b)

\* f64::floor on a non-negative quotient a/b
FloorDiv(a, b) == a \div b

\* residue in (-q/2, q/2] of x modulo q
Centered(x, q) == LET r == x % q IN IF 2 * r > q THEN r - q ELSE r

Zeros(n) == [i \in 1..n |-> 0]

\* the value of v, computed once
Force(v) == CHOOSE x \in {v} : TRUE

\* ModularOpsU64: add / sub / mul / neg modulo q
mod_add(a, b, q) == (a + b) % q
mod_sub(a, b, q) == (a - b) % q
mod_mul(a, b, q) == (a * b) % q
mod_neg(a, q) == (q - a) % q

\* VectorOps::elwise_add_mut
elwise_add(a, b, q) == [i \in 1..Len(a) |-> mod_add(a[i], b[i], q)]

\* VectorOps::elwise_fma_scalar_mut: a[i] += b[i] * c
elwise_fma_scalar(a, b, c, q) == [i \in 1..Len(a) |-> mod_add(a[i], mod_mul(b[i], c, q), q)]

\* TryConvertFrom<[i32]>: signed secret elements as residues modulo q
try_convert_from(s, q) == [i \in 1..Len(s) |-> s[i] % q]

\* all vectors of length n over {-1, 0, 1}
TernaryVectors(n) == [1..n -> {-1, 0, 1}]

HammingWeight(s) == Cardinality({i \in 1..Len(s) : s[i] # 0})

-----------------------------------------------------------------------------
(* Signed-digit decomposer (DefaultDecomposer)                             *)

\* a decomposer is [q, logb, d]; low bits that d digits of base 2^logb do
\* not cover are rounded away
ignore_bits(D) ==
    LET logq == CHOOSE l \in 0..16 : Pow(2, l) >= D.q /\ (l = 0 \/ Pow(2, l - 1) < D.q)
    IN  Max(0, logq - D.logb * D.d)

\* gadget_vector: [B^0, B^1, .., B^(d-1)] scaled by the ignored bits
gadget_vector(D) == [j \in 1..D.d |-> Pow(2, ignore_bits(D)) * Pow(Pow(2, D.logb), j - 1)]

\* signed digit j (1-based) of v in base B, digits in (-B/2, B/2]
RECURSIVE SignedDigit(_, _, _)
SignedDigit(v, B, j) ==
    LET r == v % B
        dig == IF 2 * r > B THEN r - B ELSE r
    IN  IF j = 1 THEN dig ELSE SignedDigit((v - dig) \div B, B, j - 1)

\* Decomposer::decompose: the d signed digits of x as residues modulo q
decompose(D, x) ==
    LET ig == Pow(2, ignore_bits(D))
        v == RoundDiv(x, ig)
    IN  [j \in 1..D.d |-> SignedDigit(v, Pow(2, D.logb), j) % D.q]

\* the value the digits of x recompose to against the gadget vector
recompose(D, x) ==
    LET dg == decompose(D, x)
        gv == gadget_vector(D)
        RECURSIVE Acc(_)
        Acc(j) == IF j = 0 THEN 0 ELSE mod_add(Acc(j - 1), mod_mul(dg[j], gv[j], D.q), D.q)
    IN  Acc(D.d)

-----------------------------------------------------------------------------
(* LWE primitives (src/src/lwe.rs)                                         *)

\* sum over the zipped pairs of a and s of a[i] * s[i], modulo q
RECURSIVE InnerProductTo(_, _, _, _)
InnerProductTo(a, s, q, k) ==
    IF k = 0 THEN 0
    ELSE mod_add(mod_mul(a[k], s[k], q), InnerProductTo(a, s, q, k - 1), q)
InnerProduct(a, s, q) == InnerProductTo(a, s, q, Min(Len(a), Len(s)))

\* encrypt_lwe: mask a and error e are the sampled randomness
encrypt_lwe(m, s, q, a, e) ==
    LET sq == try_convert_from(s, q)
        sa == InnerProduct(a, sq, q)
    IN  <<mod_add(mod_add(sa, e % q, q), m, q)>> \o a

\* decrypt_lwe: b - <a, s>
decrypt_lwe_mutant(ct, s, q) == mod_add(ct[1], InnerProduct(Tail(ct), try_convert_from(s, q), q), q)
decrypt_lwe(ct, s, q) ==
    mod_sub(ct[1], InnerProduct(Tail(ct), try_convert_from(s, q), q), q)

\* lwe_ksk_keygen: row (i, j) is an LWE encryption of -from_sk[i] * gadget[j]
\* under to_sk; A[r] is the sampled mask and E[r] the sampled error of row r
lwe_ksk_keygen(from_sk, to_sk, gadget, q, A, E) ==
    LET d == Len(gadget)
        neg_sk_in == [i \in 1..Len(from_sk) |-> mod_neg(try_convert_from(from_sk, q)[i], q)]
        sk_out == try_convert_from(to_sk, q)
    IN  [r \in 1..(Len(from_sk) * d) |->
            LET i == ((r - 1) \div d) + 1
                j == ((r - 1) % d) + 1
                az == InnerProduct(A[r], sk_out, q)
                b == mod_add(mod_add(az, mod_mul(gadget[j], neg_sk_in[i], q), q), E[r] % q, q)
            IN  <<b>> \o A[r]]

\* the decomposed mask of lwe_in: digit j of a_i at position (i-1)*d + j
lwe_in_a_decomposed(lwe_in, D) ==
    [r \in 1..((Len(lwe_in) - 1) * D.d) |->
        decompose(D, lwe_in[((r - 1) \div D.d) + 2])[((r - 1) % D.d) + 1]]

RECURSIVE KeySwitchAcc(_, _, _, _, _)
KeySwitchAcc(out, digits, ksk, q, r) ==
    IF r = 0 THEN out
    ELSE LET acc == Force(KeySwitchAcc(out, digits, ksk, q, r - 1))
         IN  elwise_fma_scalar(acc, ksk[r], digits[r], q)

\* the value standing for the output of a call that panicked
Panicked == <<>>

\* lwe_key_switch: Panicked when an assertion fails, else the new lwe_out
lwe_key_switch_mutant(lwe_out, lwe_in, lwe_ksk, D) ==
    IF Len(lwe_ksk) # (Len(lwe_in) - 1) * D.d THEN Panicked
    ELSE IF \E r \in 1..Len(lwe_ksk) : Len(lwe_out) # Len(lwe_ksk[r]) THEN Panicked
    ELSE KeySwitchAcc(lwe_out, lwe_in_a_decomposed(lwe_in, D), lwe_ksk, D.q, Len(lwe_ksk))
lwe_key_switch(lwe_out, lwe_in, lwe_ksk, D) ==
    IF Len(lwe_ksk) # (Len(lwe_in) - 1) * D.d THEN Panicked
    ELSE IF \E r \in 1..Len(lwe_ksk) : Len(lwe_out) # Len(lwe_ksk[r]) THEN Panicked
    ELSE LET acc == KeySwitchAcc(lwe_out, lwe_in_a_decomposed(lwe_in, D), lwe_ksk,
                                 D.q, Len(lwe_ksk))
         IN  [acc EXCEPT ![1] = mod_add(acc[1], lwe_in[1], D.q)]

-----------------------------------------------------------------------------
(* Boolean encoding (BoolEvaluator::sk_encrypt / sk_decrypt)               *)

\* rlweq_by8 = round(Q / 8) and rlwe_qby4 = round(Q / 4)
rlweq_by8(Q) == RoundDiv(Q, 8)
rlwe_qby4(Q) == RoundDiv(Q, 4)

\* true is encoded as Q/8, false as -Q/8
encode_bool(m, Q) == IF m THEN rlweq_by8(Q) ELSE Q - rlweq_by8(Q)

\* round((m + Q/8) * 4 / Q) % 4, the index of the nearest multiple of Q/4
bool_index(m, Q) == RoundDiv((m + rlweq_by8(Q)) * 4, Q) % 4

\* the decision shared by sk_decrypt and multi_party_decrypt
\* (a Rust match: "false", "true", or "panic" for the unreachable arms)
bool_of_index_mutant(idx) == IF idx = 0 THEN "false" ELSE "true"
bool_of_index(idx) == IF idx = 0 THEN "false" ELSE IF idx = 1 THEN "true" ELSE "panic"

\* the outcome of decrypting a ciphertext of the bit m without a panic
Outcome(m) == IF m THEN "true" ELSE "false"

sk_encrypt(m, sk, Q, a, e) == encrypt_lwe(encode_bool(m, Q), sk, Q, a, e)
sk_decrypt(ct, sk, Q) == bool_of_index(bool_index(decrypt_lwe(ct, sk, Q), Q))

-----------------------------------------------------------------------------
(* Polynomials of Z_Q[X]/(X^N+1): coefficient i is element i+1             *)

\* negacyclic product a * s, with s given by signed coefficients (NTT domain
\* multiplication of the backend)
poly_mul(a, s, q) ==
    LET N == Len(a)
        RECURSIVE Coef(_, _)
        Coef(k, i) ==
            IF i = 0 THEN 0
            ELSE LET j == (k - i) % N
                     t == a[i] * s[j + 1]
                 IN  (Coef(k, i - 1) + (IF i - 1 + j = k - 1 THEN t ELSE -t)) % q
    IN  [k \in 1..N |-> Coef(k, N)]

\* generate_auto_map(ring_size, k): coefficient i of p goes to index
\* (i * k) mod ring_size, with sign false (negated) when i * k wraps an odd
\* number of times through X^ring_size = -1
generate_auto_map(ring_size, k) ==
    LET kk == k % (2 * ring_size)
    IN  [index |-> [i \in 1..ring_size |-> ((i - 1) * kk) % ring_size],
         sign |-> [i \in 1..ring_size |-> ((i - 1) * kk) % (2 * ring_size) < ring_size]]

\* the loop out[to_index] = (to_sign ? v : -v) over a zeroed out
apply_auto_map(v, map, q) ==
    [j \in 1..Len(v) |->
        LET from == {i \in 1..Len(v) : map.index[i] = j - 1}
        IN  IF from = {} THEN 0
            ELSE LET i == CHOOSE x \in from : \A y \in from : y <= x
                 IN  IF map.sign[i] THEN v[i] ELSE mod_neg(v[i], q)]

\* monomial_mul: p_out = p_in * (mon_sign ? 1 : -1) * X^mon_exp in the ring
\* X^ring_size + 1; the debug assertions fail for mon_exp >= ring_size
monomial_mul_mutant(p_in, mon_exp, mon_sign, ring_size, q) ==
    [j \in 1..ring_size |-> p_in[((j - 1 - mon_exp) % ring_size) + 1]]
monomial_mul(p_in, mon_exp, mon_sign, ring_size, q) ==
    IF Len(p_in) # ring_size \/ mon_exp >= ring_size THEN Panicked
    ELSE [j \in 1..ring_size |->
            LET index == (j - 1 - mon_exp) % ring_size
                to_sign == IF index + mon_exp >= ring_size THEN ~mon_sign ELSE mon_sign
            IN  IF to_sign THEN p_in[index + 1] ELSE mod_neg(p_in[index + 1], q)]

\* sample_extract(lwe_out, rlwe_in, index): b = B[index], a = the
\* coefficients of A read backwards from index, negated past the wrap
sample_extract_mutant(lwe_out, rlwe_in, q, index) ==
    <<rlwe_in[2][index + 1]>> \o rlwe_in[1]
sample_extract(lwe_out, rlwe_in, q, index) ==
    LET ring_size == Len(rlwe_in[1])
        from == rlwe_in[1]
    IN  IF Len(lwe_out) < ring_size + 1 THEN Panicked
        ELSE [i \in 1..Len(lwe_out) |->
                IF i = 1 THEN rlwe_in[2][index + 1]
                ELSE IF i - 1 > ring_size THEN lwe_out[i]
                ELSE IF i - 2 < index + 1 THEN from[index - (i - 2) + 1]
                ELSE mod_neg(from[ring_size + index - (i - 2) + 1], q)]

-----------------------------------------------------------------------------
(* BoolEvaluator::new                                                      *)

\* mod_exponent(a, e, q) = a^e mod q
RECURSIVE mod_exponent(_, _, _)
mod_exponent(a, e, q) == IF e = 0 THEN 1 % q ELSE (mod_exponent(a, e - 1, q) * a) % q

\* g_k_dlog_map: the loop over i in 0..q/2 writing map[g^i] = i and
\* map[q - g^i] = i + q/2, later writes replacing earlier ones
RECURSIVE DlogLoop(_, _, _)
DlogLoop(g, q, n) ==
    IF n = 0 THEN [a \in 0..(q - 1) |-> 0]
    ELSE LET i == n - 1
             v == mod_exponent(g, i, q)
             m == [DlogLoop(g, q, n - 1) EXCEPT ![v] = i]
         IN  [m EXCEPT ![q - v] = i + (q \div 2)]
g_k_dlog_map_mutant(P) == DlogLoop(P.g + 2, P.br_q, P.br_q \div 2)
g_k_dlog_map(P) == DlogLoop(P.g, P.br_q, P.br_q \div 2)

embedding_factor(P) == (2 * P.rlwe_n) \div P.br_q

\* nand_test_vec before the automorphism: Q/8 on [0, 3q/8), -Q/8 after it
nand_test_vec_mutant(P) ==
    [i \in 1..(P.br_q \div 2) |->
        IF i - 1 < 2 * (P.br_q \div 8) THEN rlweq_by8(P.rlwe_q) ELSE P.rlwe_q - rlweq_by8(P.rlwe_q)]
nand_test_vec(P) ==
    [i \in 1..(P.br_q \div 2) |->
        IF i - 1 < 3 * (P.br_q \div 8) THEN rlweq_by8(P.rlwe_q) ELSE P.rlwe_q - rlweq_by8(P.rlwe_q)]

\* nand_test_vec_autog: v(X) -> v(X^{-g}) in the ring X^{q/2} + 1
nand_test_vec_autog_mutant(P) == nand_test_vec(P)
nand_test_vec_autog(P) ==
    apply_auto_map(nand_test_vec(P), generate_auto_map(P.br_q \div 2, -P.g), P.rlwe_q)

lwe_decomposer(P) == [q |-> P.lwe_q, logb |-> P.logb_lwe, d |-> P.d_lwe]

\* the BoolPbsInfo built by BoolEvaluator::new
BoolEvaluator_new(P) ==
    [parameters |-> P,
     g_k_dlog_map |-> g_k_dlog_map(P),
     embedding_factor |-> embedding_factor(P),
     nand_test_vec |-> nand_test_vec_autog(P),
     rlweq_by8 |-> rlweq_by8(P.rlwe_q),
     rlwe_qby4 |-> rlwe_qby4(P.rlwe_q),
     rlwe_auto_maps |-> [k \in {P.g, -P.g} |-> generate_auto_map(P.rlwe_n, k)],
     lwe_decomposer |-> lwe_decomposer(P)]

-----------------------------------------------------------------------------
(* Server key in the evaluation domain.  The RGSW ciphertexts and the auto *)
(* keys are represented by what they encrypt: rgsw_cts[i] is the exponent  *)
(* of the monomial X^(embedding_factor * s_i), auto_keys is the set of k   *)
(* with a key for X -> X^k, and sk_rlwe is the secret they are under.      *)

\* BoolEvaluator::server_key followed by ServerKeyEvaluationDomain::from
server_key(info, ck, A, E) ==
    [rgsw_cts |-> [i \in 1..Len(ck.sk_lwe) |-> info.embedding_factor * ck.sk_lwe[i]],
     auto_keys |-> {info.parameters.g, -info.parameters.g},
     lwe_ksk |-> lwe_ksk_keygen(ck.sk_rlwe, ck.sk_lwe, gadget_vector(info.lwe_decomposer),
                                info.parameters.lwe_q, A, E),
     sk_rlwe |-> ck.sk_rlwe]

\* rlwe_by_rgsw on the accumulator <<A, B>>: the product with the monomial
\* X^e the RGSW ciphertext encrypts
rlwe_by_rgsw(acc, e, q) ==
    LET N == Len(acc[1])
        ee == e % (2 * N)
        mon_exp == IF ee >= N THEN ee - N ELSE ee
        mon_sign == ee < N
    IN  <<monomial_mul(acc[1], mon_exp, mon_sign, N, q), monomial_mul(acc[2], mon_exp, mon_sign, N, q)>>

\* galois_auto on the accumulator: X -> X^k with the auto map of k
galois_auto(acc, auto_map, q) ==
    <<apply_auto_map(acc[1], auto_map, q), apply_auto_map(acc[2], auto_map, q)>>

-----------------------------------------------------------------------------
(* blind_rotation                                                          *)

\* the rlwe_by_rgsw steps of one bucket, in the order of the bucket
BucketSteps(bucket) == [x \in 1..Len(bucket) |-> [op |-> "rgsw", si |-> bucket[x]]]

\* the steps of the final bucket g^0: the secret index is read through the
\* bucket of -(g^0), gk_to_si[q_by_2][s_index]
LastBucketSteps(bucket, neg_bucket) ==
    [x \in 1..Len(bucket) |->
        IF bucket[x] + 1 <= Len(neg_bucket)
        THEN [op |-> "rgsw", si |-> neg_bucket[bucket[x] + 1]]
        ELSE [op |-> "panic", si |-> bucket[x]]]

\* steps of the loop `for i in (1..q_by_2).rev()` from i down to 1 over the
\* buckets gk_to_si[offset + i], each followed by the automorphism g
RECURSIVE LoopSteps(_, _, _, _)
LoopSteps(gk_to_si, offset, g, i) ==
    IF i = 0 THEN <<>>
    ELSE BucketSteps(gk_to_si[offset + i]) \o <<[op |-> "auto", k |-> g]>>
            \o LoopSteps(gk_to_si, offset, g, i - 1)

\* the whole sequence of steps of blind_rotation
blind_rotation_steps_mutant(g, q, gk_to_si) ==
    LET q_by_2 == q \div 2
    IN  LoopSteps(gk_to_si, q_by_2, g, q_by_2 - 1)
            \o BucketSteps(gk_to_si[q_by_2]) \o <<[op |-> "auto", k |-> g]>>
            \o LoopSteps(gk_to_si, 0, g, q_by_2 - 1)
            \o LastBucketSteps(gk_to_si[0], gk_to_si[q_by_2])
blind_rotation_steps(g, q, gk_to_si) ==
    LET q_by_2 == q \div 2
    IN  LoopSteps(gk_to_si, q_by_2, g, q_by_2 - 1)
            \o BucketSteps(gk_to_si[q_by_2]) \o <<[op |-> "auto", k |-> -g]>>
            \o LoopSteps(gk_to_si, 0, g, q_by_2 - 1)
            \o LastBucketSteps(gk_to_si[0], gk_to_si[q_by_2])

\* one step applied to the accumulator; Panicked stays Panicked
apply_step(acc, step, info, pbs_key) ==
    IF acc = Panicked THEN Panicked
    ELSE IF step.op = "rgsw"
    THEN IF step.si + 1 > Len(pbs_key.rgsw_cts) THEN Panicked
         ELSE rlwe_by_rgsw(acc, pbs_key.rgsw_cts[step.si + 1], info.parameters.rlwe_q)
    ELSE IF step.op = "auto"
    THEN IF step.k \notin pbs_key.auto_keys \/ step.k \notin DOMAIN info.rlwe_auto_maps THEN Panicked
         ELSE galois_auto(acc, info.rlwe_auto_maps[step.k], info.parameters.rlwe_q)
    ELSE Panicked

RECURSIVE apply_steps(_, _, _, _, _)
apply_steps(acc, steps, n, info, pbs_key) ==
    IF n = 0 THEN acc
    ELSE LET prev == Force(apply_steps(acc, steps, n - 1, info, pbs_key))
         IN  apply_step(prev, steps[n], info, pbs_key)

blind_rotation(acc, g, q, gk_to_si, info, pbs_key) ==
    LET steps == Force(blind_rotation_steps(g, q, gk_to_si))
    IN  apply_steps(acc, steps, Len(steps), info, pbs_key)

-----------------------------------------------------------------------------
(* pbs                                                                     *)

\* mod_switch_odd: floor(v * to_q / from_q), plus one when that is even
mod_switch_odd_mutant(v, from_q, to_q) == (v * to_q) \div from_q
mod_switch_odd(v, from_q, to_q) ==
    LET odd_v == (v * to_q) \div from_q
    IN  odd_v + (1 - (odd_v % 2))

\* moddown Q -> Q_ks of every element: round(v * lwe_q / rlwe_q)
pbs_moddown(lwe_in, info) ==
    [i \in 1..Len(lwe_in) |-> RoundDiv(lwe_in[i] * info.parameters.lwe_q, info.parameters.rlwe_q)]

\* the secret indices (0-based) below n whose bucket is k, in increasing order
RECURSIVE BucketOf(_, _, _)
BucketOf(k, dl, n) ==
    IF n = 0 THEN <<>>
    ELSE IF dl[n] = k THEN Append(BucketOf(k, dl, n - 1), n - 1) ELSE BucketOf(k, dl, n - 1)

\* g_k_si: bucket k holds the indices of the a_i with dlog(odd a_i) = k
pbs_g_k_si_mutant(scratch_lwe_vec, info) ==
    LET P == info.parameters
        dl == [i \in 1..(Len(scratch_lwe_vec) - 2) |->
                  info.g_k_dlog_map[mod_switch_odd(scratch_lwe_vec[i + 1], P.lwe_q, P.br_q)]]
    IN  [k \in 0..(P.br_q - 1) |-> BucketOf(k, dl, Len(dl))]
pbs_g_k_si(scratch_lwe_vec, info) ==
    LET P == info.parameters
        dl == [i \in 1..(Len(scratch_lwe_vec) - 1) |->
                  info.g_k_dlog_map[mod_switch_odd(scratch_lwe_vec[i + 1], P.lwe_q, P.br_q)]]
    IN  [k \in 0..(P.br_q - 1) |-> BucketOf(k, dl, Len(dl))]

\* the monomial X^(g*b) mod X^(q/2) + 1 of pbs: g_times_b = g * b mod q for the
\* odd mod-switched b, and past q/2 the exponent drops by q/2 and the sign
\* turns negative
pbs_gb_monomial_mutant(scratch_lwe_vec, info) ==
    LET P == info.parameters
        g_times_b == (P.g * mod_switch_odd(scratch_lwe_vec[1], P.lwe_q, P.br_q)) % P.br_q
    IN  [g_times_b |-> g_times_b, gb_monomial_exp |-> g_times_b % (P.br_q \div 2),
         gb_monomial_sign |-> TRUE]
pbs_gb_monomial(scratch_lwe_vec, info) ==
    LET P == info.parameters
        g_times_b == (P.g * mod_switch_odd(scratch_lwe_vec[1], P.lwe_q, P.br_q)) % P.br_q
        br_qby2 == P.br_q \div 2
    IN  [g_times_b |-> g_times_b,
         gb_monomial_exp |-> IF g_times_b > br_qby2 THEN g_times_b - br_qby2 ELSE g_times_b,
         gb_monomial_sign |-> ~(g_times_b > br_qby2)]

\* the trivial RLWE <<0, test_vec * X^(g*b)>>, embedded into X^N + 1
pbs_trivial_rlwe_test_poly(test_vec, scratch_lwe_vec, info) ==
    LET P == info.parameters
        br_qby2 == P.br_q \div 2
        gb == pbs_gb_monomial(scratch_lwe_vec, info)
        t == monomial_mul(test_vec, gb.gb_monomial_exp, gb.gb_monomial_sign, br_qby2, P.rlwe_q)
        embed_factor == info.embedding_factor
    IN  IF t = Panicked THEN Panicked
        ELSE IF embed_factor # 1 /\ P.rlwe_n + 1 < br_qby2 THEN Panicked
        ELSE IF embed_factor = 1 THEN
            IF P.rlwe_n # br_qby2 THEN Panicked ELSE <<Zeros(P.rlwe_n), t>>
        ELSE <<Zeros(P.rlwe_n),
               [j \in 1..P.rlwe_n |->
                   IF (j - 1) % embed_factor = 0 /\ (j - 1) \div embed_factor < br_qby2
                   THEN t[((j - 1) \div embed_factor) + 1] ELSE 0]>>

\* the mask and noise that the key-dependent steps of blind rotation leave
\* on the accumulator: fresh = [a, e] adds <<a, a * s + e>>
add_fresh(acc, fresh, pbs_key, q) ==
    IF acc = Panicked THEN Panicked
    ELSE <<elwise_add(acc[1], fresh.a, q),
           elwise_add(elwise_add(acc[2], poly_mul(fresh.a, pbs_key.sk_rlwe, q), q),
                      try_convert_from(fresh.e, q), q)>>

\* scratch_lwe_vec.as_mut().fill(zero)
fill(v, x) == [i \in 1..Len(v) |-> x]

\* the key switch of pbs from the RLWE secret to the LWE secret: the scratch
\* vector is zeroed, then lwe_key_switch accumulates into it
pbs_key_switch_mutant(scratch_lwe_vec, lwe_in, info, pbs_key) ==
    lwe_key_switch(scratch_lwe_vec, lwe_in, pbs_key.lwe_ksk, info.lwe_decomposer)
pbs_key_switch(scratch_lwe_vec, lwe_in, info, pbs_key) ==
    lwe_key_switch(fill(scratch_lwe_vec, 0), lwe_in, pbs_key.lwe_ksk, info.lwe_decomposer)

\* pbs on the scratch vector scratch_lwe_vec: the new lwe_in together with
\* the values the PBSTracer records and the accumulator before and after
\* blind rotation; the key-switched ciphertext ct_lwe_q_mod_after_ksk is
\* what pbs leaves in scratch_lwe_vec
pbs_scratch(info, test_vec, lwe_in, pbs_key, fresh, scratch_lwe_vec) ==
    LET P == info.parameters
        ct_lwe_q_mod == Force(pbs_moddown(lwe_in, info))
        scratch == Force(pbs_key_switch(scratch_lwe_vec, ct_lwe_q_mod, info, pbs_key))
        trace0 == [ct_rlwe_q_mod |-> lwe_in, ct_lwe_q_mod |-> ct_lwe_q_mod]
    IN  IF scratch = Panicked THEN [lwe_out |-> Panicked, tracer |-> trace0]
        ELSE
        LET g_k_si == Force(pbs_g_k_si(scratch, info))
            ct_br_q_mod == [i \in 1..Len(scratch) |-> mod_switch_odd(scratch[i], P.lwe_q, P.br_q)]
            acc0 == Force(pbs_trivial_rlwe_test_poly(test_vec, scratch, info))
            rotated == Force(blind_rotation(acc0, P.g, P.br_q, g_k_si, info, pbs_key))
            acc == Force(add_fresh(rotated, fresh, pbs_key, P.rlwe_q))
            trace == [ct_rlwe_q_mod |-> lwe_in, ct_lwe_q_mod |-> ct_lwe_q_mod,
                      ct_lwe_q_mod_after_ksk |-> scratch, ct_br_q_mod |-> ct_br_q_mod]
        IN  IF acc = Panicked THEN [lwe_out |-> Panicked, tracer |-> trace]
            ELSE [lwe_out |-> sample_extract(ct_lwe_q_mod, acc, P.rlwe_q, 0), tracer |-> trace,
                  g_k_si |-> g_k_si, acc0 |-> acc0, rotated |-> rotated, acc |-> acc]

\* pbs on the scratch vector of a new evaluator
pbs(info, test_vec, lwe_in, pbs_key, fresh) ==
    pbs_scratch(info, test_vec, lwe_in, pbs_key, fresh, Zeros(info.parameters.lwe_n + 1))

\* BoolEvaluator::nand on an evaluator whose scratch_memory.lwe_vector holds
\* lwe_vector on entry
nand_scratch(info, c0, c1, server_key_eval, fresh, lwe_vector) ==
    LET q == info.parameters.rlwe_q
        sum == [i \in 1..Len(c0) |-> IF i <= Len(c1) THEN mod_add(c0[i], c1[i], q) ELSE 0]
        c_out == Force([sum EXCEPT ![1] = mod_add(sum[1], info.rlwe_qby4, q)])
    IN  pbs_scratch(info, info.nand_test_vec, c_out, server_key_eval, fresh, lwe_vector)

nand_mutant(info, c0, c1, server_key_eval, fresh) ==
    LET q == info.parameters.rlwe_q
        c_out == Force([i \in 1..Len(c0) |-> mod_add(mod_add(c0[i], c1[i], q), info.rlwe_qby4, q)])
    IN  pbs(info, info.nand_test_vec, c_out, server_key_eval, fresh)
\* BoolEvaluator::nand on a new evaluator
nand(info, c0, c1, server_key_eval, fresh) ==
    nand_scratch(info, c0, c1, server_key_eval, fresh, Zeros(info.parameters.lwe_n + 1))

-----------------------------------------------------------------------------
(* Harness of the LWE primitives: tests::encrypt_decrypt_works and         *)
(* tests::bool_encrypt_decrypt_works                                       *)

\* LWE dimension, plaintext bits and largest sampled error of the harness
LweDim == 2
LogP == 2
MaxNoise == 3

\* moduli of the harness: a power of two (lwe_q) and a prime (rlwe_q)
LweModuli == {16, 17, 23}
IsPowerOfTwo(q) == \E l \in 0..16 : Pow(2, l) = q

\* sampled mask coordinates and errors
MaskSample(q) == {0, 1, q - 1}
ErrorSample == (-MaxNoise)..MaxNoise

LwIdle == [pc |-> "off"]
EvIdle == [pc |-> "off"]
MpIdle == [pc |-> "off"]

LweInit ==
    /\ ev = EvIdle
    /\ mp = MpIdle
    /\ \E q \in LweModuli, sk \in TernaryVectors(LweDim) :
        lw = [pc |-> "ready", q |-> q, sk |-> sk]

\* encrypt_lwe of the scaled message m << (logq - logp)
LweEncryptScaled ==
    /\ lw.pc = "ready"
    /\ IsPowerOfTwo(lw.q)
    /\ \E m \in 0..(Pow(2, LogP) - 1), a \in [1..LweDim -> MaskSample(lw.q)], e \in ErrorSample :
        lw' = [pc |-> "encrypted", q |-> lw.q, sk |-> lw.sk, kind |-> "scaled",
               m |-> m, e |-> e, encoded |-> m * (lw.q \div Pow(2, LogP)),
               ct |-> encrypt_lwe(m * (lw.q \div Pow(2, LogP)), lw.sk, lw.q, a, e)]
    /\ UNCHANGED <<ev, mp>>

\* BoolEvaluator::sk_encrypt
LweSkEncrypt ==
    /\ lw.pc = "ready"
    /\ \E m \in BOOLEAN, a \in [1..LweDim -> MaskSample(lw.q)], e \in ErrorSample :
        lw' = [pc |-> "encrypted", q |-> lw.q, sk |-> lw.sk, kind |-> "bool",
               m |-> m, e |-> e, encoded |-> encode_bool(m, lw.q),
               ct |-> sk_encrypt(m, lw.sk, lw.q, a, e)]
    /\ UNCHANGED <<ev, mp>>

\* decrypt_lwe followed by the rounding of the test
LweDecryptScaled ==
    /\ lw.pc = "encrypted"
    /\ lw.kind = "scaled"
    /\ LET dec == decrypt_lwe(lw.ct, lw.sk, lw.q)
       IN  lw' = [pc |-> "decrypted", q |-> lw.q, sk |-> lw.sk, kind |-> lw.kind,
                  m |-> lw.m, e |-> lw.e, encoded |-> lw.encoded, ct |-> lw.ct,
                  dec |-> dec,
                  m_back |-> RoundDiv(dec * Pow(2, LogP), lw.q) % Pow(2, LogP)]
    /\ UNCHANGED <<ev, mp>>

\* BoolEvaluator::sk_decrypt
LweSkDecrypt ==
    /\ lw.pc = "encrypted"
    /\ lw.kind = "bool"
    /\ lw' = [pc |-> "decrypted", q |-> lw.q, sk |-> lw.sk, kind |-> lw.kind,
              m |-> lw.m, e |-> lw.e, encoded |-> lw.encoded, ct |-> lw.ct,
              dec |-> decrypt_lwe(lw.ct, lw.sk, lw.q),
              m_back |-> sk_decrypt(lw.ct, lw.sk, lw.q)]
    /\ UNCHANGED <<ev, mp>>

LweNext == LweEncryptScaled \/ LweSkEncrypt \/ LweDecryptScaled \/ LweSkDecrypt

SpecLwe == LweInit /\ [][LweNext]_vars

\* the error margin of a boolean ciphertext at modulus q: 8|e| < q, shrunk by
\* the rounding of q/8 when 8 does not divide q
WithinEighth(e, q) == 8 * Abs(e) < q
WithinRoundedEighth(e, q) == 8 * Abs(e) < q - 2 * Abs(8 * rlweq_by8(q) - q)

\* C4 (as stated): decrypt_lwe(encrypt_lwe(m, s), s) = m + e mod q; a bit is
\* recovered by sk_decrypt whenever |e| < Q/8, and a scaled message in
\* [0, 2^logp) is recovered by rounding (when |e| < q / 2^(logp+1)).
C4_AsStated ==
    lw.pc = "decrypted" =>
        /\ lw.dec = (lw.encoded + lw.e) % lw.q
        /\ (lw.kind = "bool" /\ WithinEighth(lw.e, lw.q)) => lw.m_back = Outcome(lw.m)
        /\ (lw.kind = "scaled" /\ Pow(2, LogP + 1) * Abs(lw.e) < lw.q) => lw.m_back = lw.m

\* C4 (amended): as C4, with the bit recovered whenever
\* |e| < Q/8 - 2 * |round(Q/8) - Q/8|, which is |e| < Q/8 when 8 divides Q.
C4_RoundTrip ==
    lw.pc = "decrypted" =>
        /\ lw.dec = (lw.encoded + lw.e) % lw.q
        /\ (lw.kind = "bool" /\ WithinRoundedEighth(lw.e, lw.q)) => lw.m_back = Outcome(lw.m)
        /\ (lw.kind = "scaled" /\ Pow(2, LogP + 1) * Abs(lw.e) < lw.q) => lw.m_back = lw.m

\* a bit encrypted with a non-zero error inside the margin at the prime modulus
\* has been decrypted
C4_Witness ==
    /\ lw.pc = "decrypted"
    /\ lw.kind = "bool"
    /\ lw.q = 17
    /\ lw.e = -1
    /\ lw.m = TRUE
    /\ lw.m_back = "true"
    /\ HammingWeight(lw.sk) > 0

-----------------------------------------------------------------------------
(* Harness of LWE key switching: tests::key_switch_works                   *)

\* dimensions of the two secrets and the modulus of the harness
KsDimIn == 2
KsDimOut == 2
KsModulus == 16
MaxSeed == 1

\* decomposers of the harness: exact (B^d = q) and truncating (B^d < q)
KsDecomposers == {[q |-> KsModulus, logb |-> 2, d |-> 2], [q |-> KsModulus, logb |-> 1, d |-> 3]}

\* secrets of LweSecret::random(n >> 1, n): ternary with Hamming weight n / 2
SecretsOfWeight(n, hw) == {s \in TernaryVectors(n) : HammingWeight(s) = hw}

\* element i of the stream a PRNG seeded with `seed` fills uniformly modulo q
Prng(seed, i, q) == ((seed + 1) * (7 * i + 3) + 5 * i * i) % q

\* the masks a seeded PRNG fills into `rows` rows of `cols` elements
SeededRows(seed, rows, cols, q) ==
    [r \in 1..rows |-> [k \in 1..cols |-> Prng(seed, (r - 1) * cols + k, q)]]

\* Gaussian errors of `rows` rows: pattern k of small errors
ErrorPattern(k, rows) == [r \in 1..rows |-> Centered(k * (r + 1), 3)]

KsMaskSample == {0, 5, 11}

KsInit ==
    /\ ev = EvIdle
    /\ mp = MpIdle
    /\ \E D \in KsDecomposers, from_sk \in SecretsOfWeight(KsDimIn, KsDimIn \div 2),
       to_sk \in SecretsOfWeight(KsDimOut, KsDimOut \div 2) :
        lw = [pc |-> "ks_ready", D |-> D, from_sk |-> from_sk, to_sk |-> to_sk]

\* lwe_ksk_keygen on a zero matrix of from_sk.len() * d rows
KsKeygen ==
    /\ lw.pc = "ks_ready"
    /\ \E seed \in 0..MaxSeed, k \in 0..2 :
        LET rows == KsDimIn * lw.D.d
            E == ErrorPattern(k, rows)
        IN  lw' = [pc |-> "ks_keyed", D |-> lw.D, from_sk |-> lw.from_sk, to_sk |-> lw.to_sk,
                   E |-> E,
                   ksk |-> lwe_ksk_keygen(lw.from_sk, lw.to_sk, gadget_vector(lw.D), lw.D.q,
                                          SeededRows(seed, rows, KsDimOut, lw.D.q), E)]
    /\ UNCHANGED <<ev, mp>>

\* encrypt_lwe of m << (logq - logp) under from_sk
KsEncrypt ==
    /\ lw.pc = "ks_keyed"
    /\ \E m \in 0..(Pow(2, LogP) - 1), a \in [1..KsDimIn -> KsMaskSample], e \in {-1, 0, 1} :
        lw' = [pc |-> "ks_encrypted", D |-> lw.D, from_sk |-> lw.from_sk, to_sk |-> lw.to_sk,
               E |-> lw.E, ksk |-> lw.ksk, m |-> m, e |-> e,
               ct_in |-> encrypt_lwe(m * (lw.D.q \div Pow(2, LogP)), lw.from_sk, lw.D.q, a, e)]
    /\ UNCHANGED <<ev, mp>>

\* lwe_key_switch into a zero-initialised output, then decrypt_lwe under to_sk
KsSwitch ==
    /\ lw.pc = "ks_encrypted"
    /\ LET out == lwe_key_switch(Zeros(KsDimOut + 1), lw.ct_in, lw.ksk, lw.D)
           dec == decrypt_lwe(out, lw.to_sk, lw.D.q)
       IN  lw' = [pc |-> "ks_switched", D |-> lw.D, from_sk |-> lw.from_sk, to_sk |-> lw.to_sk,
                  E |-> lw.E, ksk |-> lw.ksk, m |-> lw.m, e |-> lw.e, ct_in |-> lw.ct_in,
                  ct_out |-> out, dec |-> dec,
                  m_back |-> RoundDiv(dec * Pow(2, LogP), lw.D.q) % Pow(2, LogP)]
    /\ UNCHANGED <<ev, mp>>

KsNext == KsKeygen \/ KsEncrypt \/ KsSwitch

SpecKs == KsInit /\ [][KsNext]_vars

\* key-switch noise: the sum over the rows r of digit_r * E[r]
RECURSIVE KsNoiseTo(_, _, _, _)
KsNoiseTo(digits, E, q, r) ==
    IF r = 0 THEN 0 ELSE KsNoiseTo(digits, E, q, r - 1) + Centered(digits[r], q) * E[r]

\* decomposition error: the sum over i of (recompose(a_i) - a_i) * from_sk[i]
RECURSIVE KsDecompErrTo(_, _, _, _)
KsDecompErrTo(ct, sk, D, i) ==
    IF i = 0 THEN 0
    ELSE KsDecompErrTo(ct, sk, D, i - 1) + Centered(recompose(D, ct[i + 1]) - ct[i + 1], D.q) * sk[i]

KsTotalNoise ==
    KsNoiseTo(lwe_in_a_decomposed(lw.ct_in, lw.D), lw.E, lw.D.q, Len(lw.ksk))
        - KsDecompErrTo(lw.ct_in, lw.from_sk, lw.D, KsDimIn)

\* C5: key switching with a key of lwe_ksk_keygen into a zero output keeps
\* the plaintext: decrypt_lwe(out, to_sk) = decrypt_lwe(in, from_sk) + the
\* key-switch noise - the decomposition error, and m in [0, 2^logp) is
\* recovered when the total noise is below q / 2^(logp+1).
C5_KeySwitch ==
    lw.pc = "ks_switched" =>
        /\ lw.ct_out # Panicked
        /\ lw.dec = (decrypt_lwe(lw.ct_in, lw.from_sk, lw.D.q) + KsTotalNoise) % lw.D.q
        /\ Pow(2, LogP + 1) * Abs(lw.e + KsTotalNoise) < lw.D.q => lw.m_back = lw.m

\* a ciphertext of m = 3 with non-zero input error, key-switch noise and a
\* truncating decomposer was switched and decrypts to 3
C5_Witness ==
    /\ lw.pc = "ks_switched"
    /\ lw.m = 3
    /\ lw.m_back = 3
    /\ lw.e # 0
    /\ lw.D.d = 3
    /\ KsTotalNoise # 0
    /\ \E r \in 1..Len(lw.E) : lw.E[r] # 0

-----------------------------------------------------------------------------
(* The boolean evaluator: tests::bool_nand                                 *)

\* parameter sets of the evaluator: embedding factor 1 and 2
ParameterSets ==
    {[rlwe_q |-> 97, lwe_q |-> 16, br_q |-> 16, rlwe_n |-> 8, lwe_n |-> 4, g |-> 5,
      logb_lwe |-> 2, d_lwe |-> 2],
     [rlwe_q |-> 97, lwe_q |-> 16, br_q |-> 8, rlwe_n |-> 8, lwe_n |-> 2, g |-> 5,
      logb_lwe |-> 2, d_lwe |-> 2]}

\* largest number of chained gates
MaxGates == 2

\* the ternary secret of Hamming weight n / 2 that a secret sampler seeded
\* with `seed` returns
TernaryOfSeed(seed, n) ==
    [i \in 1..n |->
        IF (i + seed) % 2 # 0 THEN 0
        ELSE IF ((i + seed) \div 2) % 2 = 0 THEN 1 ELSE -1]

\* what the key-dependent steps of a blind rotation add to the accumulator:
\* nothing, or a mask with an error on coefficient 0
FreshSample(N, q) ==
    {[a |-> Zeros(N), e |-> Zeros(N)]}
        \cup {[a |-> SeededRows(0, 1, N, q)[1], e |-> [i \in 1..N |-> IF i = 1 THEN x ELSE 0]] :
                x \in {-1, 1}}

NoCt == <<>>
NoKey == [none |-> TRUE]
NoRun == [lwe_out |-> Panicked]

\* BoolEvaluator::new
EvInit ==
    /\ lw = LwIdle
    /\ mp = MpIdle
    /\ \E P \in ParameterSets :
        ev = [pc |-> "new", info |-> BoolEvaluator_new(P), ck |-> NoKey, sk |-> NoKey,
              c0 |-> NoCt, c1 |-> NoCt, m0 |-> FALSE, m1 |-> FALSE,
              c_out |-> NoCt, run |-> NoRun, fresh |-> NoKey, m_back |-> "none", gates |-> 0]

\* BoolEvaluator::client_key
ClientKeyGen ==
    /\ ev.pc = "new"
    /\ \E seed \in 0..1, lwe_seed \in 0..3 :
        ev' = [ev EXCEPT !.pc = "client",
                         !.ck = [sk_rlwe |-> TernaryOfSeed(seed, ev.info.parameters.rlwe_n),
                                 sk_lwe |-> TernaryOfSeed(lwe_seed, ev.info.parameters.lwe_n)]]
    /\ UNCHANGED <<lw, mp>>

\* BoolEvaluator::server_key and ServerKeyEvaluationDomain::from
ServerKeyGen ==
    /\ ev.pc = "client"
    /\ \E k \in 0..1 :
        LET P == ev.info.parameters
            rows == P.rlwe_n * P.d_lwe
        IN  ev' = [ev EXCEPT !.pc = "server",
                             !.sk = server_key(ev.info, ev.ck,
                                               SeededRows(k, rows, P.lwe_n, P.lwe_q),
                                               ErrorPattern(k, rows))]
    /\ UNCHANGED <<lw, mp>>

\* sk_encrypt of m0 into ct0, then of m1 into ct1
SkEncrypt ==
    /\ ev.pc \in {"server", "one"}
    /\ \E m \in BOOLEAN, e \in {-1, 0, 1} :
        LET P == ev.info.parameters
            seed == IF ev.pc = "server" THEN 0 ELSE 1
            ct == sk_encrypt(m, ev.ck.sk_rlwe, P.rlwe_q, SeededRows(seed, 1, P.rlwe_n, P.rlwe_q)[1], e)
        IN  ev' = IF ev.pc = "server"
                  THEN [ev EXCEPT !.pc = "one", !.c0 = ct, !.m0 = m]
                  ELSE [ev EXCEPT !.pc = "ready", !.c1 = ct, !.m1 = m]
    /\ UNCHANGED <<lw, mp>>

\* ct_back = nand(ct0, ct1, server_key)
Nand ==
    /\ ev.pc = "ready"
    /\ \E fresh \in FreshSample(ev.info.parameters.rlwe_n, ev.info.parameters.rlwe_q) :
        LET run == nand(ev.info, ev.c0, ev.c1, ev.sk, fresh)
        IN  ev' = [ev EXCEPT !.pc = "evaluated", !.run = run, !.c_out = run.lwe_out,
                             !.fresh = fresh]
    /\ UNCHANGED <<lw, mp>>

\* m_back = sk_decrypt(ct_back, client_key)
SkDecrypt ==
    /\ ev.pc = "evaluated"
    /\ ev.c_out # Panicked
    /\ ev' = [ev EXCEPT !.pc = "decrypted",
                        !.m_back = sk_decrypt(ev.c_out, ev.ck.sk_rlwe, ev.info.parameters.rlwe_q)]
    /\ UNCHANGED <<lw, mp>>

\* the chaining of the test: m1 = m0; m0 = m_out; ct1 = ct0; ct0 = ct_back
Feed ==
    /\ ev.pc = "decrypted"
    /\ ev.gates + 1 < MaxGates
    /\ ev' = [ev EXCEPT !.pc = "ready", !.m1 = ev.m0, !.m0 = ~(ev.m0 /\ ev.m1),
                        !.c1 = ev.c0, !.c0 = ev.c_out, !.gates = ev.gates + 1]
    /\ UNCHANGED <<lw, mp>>

Next == ClientKeyGen \/ ServerKeyGen \/ SkEncrypt \/ Nand \/ SkDecrypt \/ Feed

Spec == EvInit /\ [][Next]_vars

\* the phase the mod-switched ciphertext of a NAND of m0 and m1 ideally has:
\* (q/4) * (number of true inputs)
NandIdealPhase(P, m0, m1) ==
    (P.br_q \div 4) * ((IF m0 THEN 1 ELSE 0) + (IF m1 THEN 1 ELSE 0))

\* the error of the phase of the mod-switched ciphertext ct_br_q_mod
NandPhaseError ==
    LET P == ev.info.parameters
    IN  Centered(decrypt_lwe(ev.run.tracer.ct_br_q_mod, ev.ck.sk_lwe, P.br_q)
                    - NandIdealPhase(P, ev.m0, ev.m1), P.br_q)

\* the noise of the gate is below the decoding margins: the phase error of
\* the mod-switched ciphertext is below q/8 and the fresh noise of the
\* output is below the margin of sk_decrypt
NandNoiseOK ==
    /\ 8 * Abs(NandPhaseError) < ev.info.parameters.br_q
    /\ WithinRoundedEighth(ev.fresh.e[1], ev.info.parameters.rlwe_q)

\* C1: for every pair of bits (m0, m1), with the noise of the gate below the
\* decoding margins, sk_decrypt(nand(ct0, ct1)) is !(m0 && m1), for fresh
\* encryptions and for inputs that are outputs of earlier gates of a chain.
C1_NandCorrect ==
    (ev.pc = "decrypted" /\ NandNoiseOK) => ev.m_back = Outcome(~(ev.m0 /\ ev.m1))

\* the second gate of a chain, fed with the output of the first, took two
\* true inputs under non-zero noise and decrypted to false
C1_Witness ==
    /\ ev.pc = "decrypted"
    /\ ev.gates = 1
    /\ NandNoiseOK
    /\ NandPhaseError # 0
    /\ ev.fresh.e[1] # 0
    /\ ev.m0 /\ ev.m1
    /\ ev.m_back = "false"

\* C3: nand(c0, c1, server_key) builds c with c[i] = c0[i] + c1[i] mod Q,
\* adds round(Q/4) to c[0] only, runs pbs on c and returns the result; c0,
\* c1 and the server key are unchanged by the call.
C3_NandFrame ==
    [][(ev.pc = "ready" /\ ev'.pc = "evaluated") =>
        LET q == ev.info.parameters.rlwe_q
            c == ev'.run.tracer.ct_rlwe_q_mod
        IN  /\ Len(c) = Len(ev.c0)
            /\ \A i \in 1..Len(c) :
                   c[i] = (ev.c0[i] + ev.c1[i] + (IF i = 1 THEN rlwe_qby4(q) ELSE 0)) % q
            /\ ev'.run = pbs(ev.info, ev.info.nand_test_vec, c, ev.sk, ev'.fresh)
            /\ ev'.c_out = ev'.run.lwe_out
            /\ ev'.c0 = ev.c0 /\ ev'.c1 = ev.c1 /\ ev'.sk = ev.sk /\ ev'.info = ev.info]_vars

\* a gate was evaluated on two different ciphertexts with non-zero masks
C3_Witness ==
    /\ ev.pc = "evaluated"
    /\ ev.c_out # Panicked
    /\ ev.c0 # ev.c1
    /\ ev.run.tracer.ct_rlwe_q_mod[2] = (ev.c0[2] + ev.c1[2]) % ev.info.parameters.rlwe_q
    /\ ev.run.tracer.ct_rlwe_q_mod[2] # (ev.c0[2] + ev.c1[2] + ev.info.rlwe_qby4) % ev.info.parameters.rlwe_q
    /\ ev.c0[2] # 0 /\ ev.c1[2] # 0

-----------------------------------------------------------------------------
(* pbs on arbitrary ciphertexts and arbitrary ternary LWE secrets          *)

\* largest seed of the input ciphertexts of pbs
MaxInput == 127

\* parameter sets of the runs of pbs: embedding factor 1 and 2, with q = 8
\* and q = 16
PbsParameterSets ==
    {[rlwe_q |-> 97, lwe_q |-> 16, br_q |-> 8, rlwe_n |-> 4, lwe_n |-> 2, g |-> 5,
      logb_lwe |-> 2, d_lwe |-> 2],
     [rlwe_q |-> 97, lwe_q |-> 16, br_q |-> 8, rlwe_n |-> 8, lwe_n |-> 2, g |-> 5,
      logb_lwe |-> 2, d_lwe |-> 2],
     [rlwe_q |-> 97, lwe_q |-> 16, br_q |-> 16, rlwe_n |-> 8, lwe_n |-> 2, g |-> 5,
      logb_lwe |-> 2, d_lwe |-> 2]}

\* what blind rotation leaves on the accumulator in these runs: nothing, or
\* a mask with an error on coefficient 0
PbsFreshSample(N, q) ==
    {[a |-> Zeros(N), e |-> Zeros(N)],
     [a |-> SeededRows(1, 1, N, q)[1], e |-> [i \in 1..N |-> IF i = 1 THEN 1 ELSE 0]]}

\* an evaluator with a server key for any ternary LWE secret
PbsInit ==
    /\ lw = LwIdle
    /\ mp = MpIdle
    /\ \E P \in PbsParameterSets : \E sk_lwe \in TernaryVectors(P.lwe_n), k \in 0..1 :
        LET info == BoolEvaluator_new(P)
            ck == [sk_rlwe |-> TernaryOfSeed(k, P.rlwe_n), sk_lwe |-> sk_lwe]
            rows == P.rlwe_n * P.d_lwe
        IN  ev = [pc |-> "pbs_ready", info |-> info, ck |-> ck,
                  sk |-> server_key(info, ck, SeededRows(k, rows, P.lwe_n, P.lwe_q),
                                    ErrorPattern(k, rows)),
                  c0 |-> NoCt, c1 |-> NoCt, m0 |-> FALSE, m1 |-> FALSE,
                  c_out |-> NoCt, run |-> NoRun, fresh |-> NoKey, m_back |-> "none", gates |-> 0]

\* pbs(pbs_info, nand_test_vec, lwe_in, server_key) on a ciphertext lwe_in
PbsRun ==
    /\ ev.pc = "pbs_ready"
    /\ \E seed \in 0..MaxInput,
          fresh \in PbsFreshSample(ev.info.parameters.rlwe_n, ev.info.parameters.rlwe_q) :
        LET P == ev.info.parameters
            lwe_in == SeededRows(seed, 1, P.rlwe_n + 1, P.rlwe_q)[1]
            run == pbs(ev.info, ev.info.nand_test_vec, lwe_in, ev.sk, fresh)
        IN  ev' = [ev EXCEPT !.pc = "pbs_done", !.c0 = lwe_in, !.run = run,
                             !.c_out = run.lwe_out, !.fresh = fresh]
    /\ UNCHANGED <<lw, mp>>

PbsNext == PbsRun

SpecPbs == PbsInit /\ [][PbsNext]_vars

\* the test vector as a function on Z_q: coefficient m of nand_test_vec for
\* m < q/2, and minus coefficient m - q/2 for m >= q/2 (X^(q/2) = -1)
test_vec_at(P, m) ==
    IF m < P.br_q \div 2 THEN nand_test_vec(P)[m + 1]
    ELSE mod_neg(nand_test_vec(P)[m - (P.br_q \div 2) + 1], P.rlwe_q)

\* the phase b - <a, s> mod q of the ciphertext after the odd mod-switch
PbsPhase == decrypt_lwe(ev.run.tracer.ct_br_q_mod, ev.ck.sk_lwe, ev.info.parameters.br_q)

\* C2: after pbs, the plaintext of the accumulator's B-half at coefficient 0
\* is the test vector evaluated at (b - <a, s>) mod q, (b, a) the ciphertext
\* after the odd mod-switch and s the LWE secret, for every ciphertext and
\* every ternary secret: both without noise (the accumulator stays trivial)
\* and, up to the fresh noise e, with the mask the rotation leaves on it.
C2_AccumulatorAtZero ==
    (ev.pc = "pbs_done" /\ ev.c_out # Panicked) =>
        LET P == ev.info.parameters
            acc == ev.run.acc
        IN  /\ ev.run.rotated[1] = Zeros(P.rlwe_n)
            /\ ev.run.rotated[2][1] = test_vec_at(P, PbsPhase)
            /\ (acc[2][1] - poly_mul(acc[1], ev.ck.sk_rlwe, P.rlwe_q)[1] - ev.fresh.e[1]) % P.rlwe_q
                   = test_vec_at(P, PbsPhase)

\* pbs ran with embedding factor 2 on a ciphertext whose phase is in the
\* negated half of Z_q, two secret elements sharing one bucket
C2_Witness ==
    /\ ev.pc = "pbs_done"
    /\ ev.c_out # Panicked
    /\ ev.info.embedding_factor = 2
    /\ 2 * PbsPhase >= ev.info.parameters.br_q
    /\ HammingWeight(ev.ck.sk_lwe) = 2
    /\ ev.ck.sk_lwe[1] # ev.ck.sk_lwe[2]
    /\ \E k \in DOMAIN ev.run.g_k_si : Len(ev.run.g_k_si[k]) = 2
    /\ ev.fresh.e[1] # 0


-----------------------------------------------------------------------------
(* Multi-party keys: shares and their aggregation                          *)

\* rows of polynomials a PRNG seeded with `seed` fills, starting `offset`
\* elements into its stream
PrngRows(seed, offset, rows, cols, q) ==
    [r \in 1..rows |-> [k \in 1..cols |-> Prng(seed, offset + (r - 1) * cols + k, q)]]

\* Gaussian error polynomials of `rows` rows: pattern k of small errors
ErrorRows(k, rows, cols) == [r \in 1..rows |-> [c \in 1..cols |-> Centered(k * (r + c), 3)]]

auto_decomposer(P) == [q |-> P.rlwe_q, logb |-> P.logb_auto, d |-> P.d_auto]

\* public_key_share: the share a * s + e of an RLWE encryption of zero, a
\* filled by the PRNG seeded with the common reference seed
public_key_share(sk_rlwe, P, cr_seed, e) ==
    elwise_add(poly_mul(PrngRows(cr_seed, 0, 1, P.rlwe_n, P.rlwe_q)[1], sk_rlwe, P.rlwe_q),
               try_convert_from(e, P.rlwe_q), P.rlwe_q)

\* BoolEvaluator::multi_party_public_key_share
multi_party_public_key_share(info, cr_seed, ck, e) ==
    [share |-> public_key_share(ck.sk_rlwe, info.parameters, cr_seed, e),
     cr_seed |-> cr_seed,
     parameters |-> info.parameters]

\* the element-wise sum modulo q of field f of the first n shares, added in
\* the order of the list onto `zero`
RECURSIVE SumShares(_, _, _, _, _)
SumShares(shares, f, zero, q, n) ==
    IF n = 0 THEN zero
    ELSE LET acc == Force(SumShares(shares, f, zero, q, n - 1))
         IN  elwise_add(acc, shares[n][f], q)

\* PublicKey::from(&[CommonReferenceSeededCollectivePublicKeyShare])
PublicKey_from_unchecked(value) ==
    IF Len(value) = 0 THEN Panicked
    ELSE <<PrngRows(value[1].cr_seed, 0, 1, value[1].parameters.rlwe_n,
                    value[1].parameters.rlwe_q)[1],
           SumShares(value, "share", Zeros(value[1].parameters.rlwe_n),
                     value[1].parameters.rlwe_q, Len(value))>>
PublicKey_from_last(value) ==
    IF Len(value) = 0 THEN Panicked
    ELSE <<PrngRows(value[1].cr_seed, 0, 1, value[1].parameters.rlwe_n, value[1].parameters.rlwe_q)[1],
           value[Len(value)].share>>
PublicKey_from(value) ==
    IF Len(value) = 0 THEN Panicked
    ELSE LET parameters == value[1].parameters
             seed == value[1].cr_seed
         IN  IF \E i \in 1..Len(value) :
                    value[i].cr_seed # seed \/ value[i].parameters # parameters
             THEN Panicked
             ELSE <<PrngRows(seed, 0, 1, parameters.rlwe_n, parameters.rlwe_q)[1],
                    SumShares(value, "share", Zeros(parameters.rlwe_n), parameters.rlwe_q,
                              Len(value))>>

\* galois_key_gen: the B-halves b_j = a_j * s + e_j - s(X^k) * gadget_j of
\* the auto key for X -> X^k
galois_key_gen(sk_rlwe, k, gadget, q, A, E) ==
    LET N == Len(sk_rlwe)
        s_auto == apply_auto_map(try_convert_from(sk_rlwe, q), generate_auto_map(N, k), q)
    IN  [j \in 1..Len(gadget) |->
            [c \in 1..N |->
                (poly_mul(A[j], sk_rlwe, q)[c] + E[j][c] - s_auto[c] * gadget[j]) % q]]

\* BoolEvaluator::multi_party_server_key_share: the PRNG seeded with
\* cr_seed fills the masks of the auto key of g, of -g and of the LWE
\* key-switching key, in this order; only the B-halves are kept
multi_party_server_key_share(info, cr_seed, ck, k) ==
    LET P == info.parameters
        N == P.rlwe_n
        auto_gadget == gadget_vector(auto_decomposer(P))
        ksk_rows == N * P.d_lwe
        ksk == lwe_ksk_keygen(ck.sk_rlwe, ck.sk_lwe, gadget_vector(info.lwe_decomposer), P.lwe_q,
                              PrngRows(cr_seed, 2 * P.d_auto * N, ksk_rows, P.lwe_n, P.lwe_q),
                              ErrorPattern(k, ksk_rows))
    IN  [auto_keys |->
            [a \in {P.g, -P.g} |->
                galois_key_gen(ck.sk_rlwe, a, auto_gadget, P.rlwe_q,
                               PrngRows(cr_seed, (IF a = P.g THEN 0 ELSE P.d_auto * N), P.d_auto, N,
                                        P.rlwe_q),
                               ErrorRows(k, P.d_auto, N))],
         rgsw_cts |-> [i \in 1..Len(ck.sk_lwe) |-> info.embedding_factor * ck.sk_lwe[i]],
         lwe_ksk |-> [r \in 1..ksk_rows |-> ksk[r][1]],
         cr_seed |-> cr_seed,
         parameters |-> P]

\* the sum modulo q of row j of the auto key for a over the first n shares
RECURSIVE SumAutoRow(_, _, _, _, _, _)
SumAutoRow(shares, a, j, zero, q, n) ==
    IF n = 0 THEN zero
    ELSE LET acc == Force(SumAutoRow(shares, a, j, zero, q, n - 1))
         IN  elwise_add(acc, shares[n].auto_keys[a][j], q)

\* the RGSW product over the first n shares: the exponents add up
RECURSIVE SumRgsw(_, _, _)
SumRgsw(shares, index, n) ==
    IF n = 0 THEN 0 ELSE SumRgsw(shares, index, n - 1) + shares[n].rgsw_cts[index]

\* aggregate_multi_party_server_key_shares
aggregate_lwe_ksk_rlweq(shares) ==
    LET parameters == shares[1].parameters
    IN  SumShares(shares, "lwe_ksk", Zeros(parameters.rlwe_n * parameters.d_lwe),
                  parameters.rlwe_q, Len(shares))
aggregate_lwe_ksk(shares) ==
    LET parameters == shares[1].parameters
    IN  SumShares(shares, "lwe_ksk", Zeros(parameters.rlwe_n * parameters.d_lwe),
                  parameters.lwe_q, Len(shares))

aggregate_multi_party_server_key_shares(shares) ==
    IF Len(shares) = 0 THEN Panicked
    ELSE LET parameters == shares[1].parameters
             cr_seed == shares[1].cr_seed
             rlwe_n == parameters.rlwe_n
             g == parameters.g
         IN  IF \E i \in 2..Len(shares) :
                    shares[i].parameters # parameters \/ shares[i].cr_seed # cr_seed
             THEN Panicked
             ELSE IF \E i \in 1..Len(shares) : \E a \in {g, -g} :
                        \/ a \notin DOMAIN shares[i].auto_keys
                        \/ Len(shares[i].auto_keys[a]) # parameters.d_auto
                        \/ \E j \in 1..Len(shares[i].auto_keys[a]) :
                               Len(shares[i].auto_keys[a][j]) # rlwe_n
             THEN Panicked
             ELSE IF \E i \in 1..Len(shares) : Len(shares[i].lwe_ksk) # rlwe_n * parameters.d_lwe
             THEN Panicked
             ELSE [auto_keys |->
                      [a \in {g, -g} |->
                          [j \in 1..parameters.d_auto |->
                              SumAutoRow(shares, a, j, Zeros(rlwe_n), parameters.rlwe_q, Len(shares))]],
                   rgsw_cts |-> [index \in 1..parameters.lwe_n |-> SumRgsw(shares, index, Len(shares))],
                   lwe_ksk |-> aggregate_lwe_ksk(shares),
                   cr_seed |-> cr_seed,
                   parameters |-> parameters]

-----------------------------------------------------------------------------
(* Multi-party encryption and decryption                                   *)

\* BoolEvaluator::pk_encrypt: (a * u + e0, b * u + e1 + m) with the
\* ephemeral ternary u, extracted at coefficient 0
pk_encrypt(info, pk, m, u, e0, e1) ==
    LET q == info.parameters.rlwe_q
        ring_size == info.parameters.rlwe_n
        row0 == elwise_add(try_convert_from(e0, q), poly_mul(pk[1], u, q), q)
        row1 == elwise_add(try_convert_from(e1, q), poly_mul(pk[2], u, q), q)
        rlwe == <<row0, [row1 EXCEPT ![1] = mod_add(row1[1], encode_bool(m, q), q)]>>
    IN  sample_extract(Zeros(ring_size + 1), rlwe, q, 0)

\* BoolEvaluator::multi_party_decryption_share: -<a, s> + e
multi_party_decryption_share_mutant(info, lwe_ct, ck, e) ==
    mod_add(InnerProduct(Tail(lwe_ct), try_convert_from(ck.sk_rlwe, info.parameters.rlwe_q),
                         info.parameters.rlwe_q), e % info.parameters.rlwe_q, info.parameters.rlwe_q)
multi_party_decryption_share(info, lwe_ct, ck, e) ==
    LET q == info.parameters.rlwe_q
        s == try_convert_from(ck.sk_rlwe, q)
        neg_s == [i \in 1..Len(s) |-> mod_neg(s[i], q)]
    IN  IF Len(lwe_ct) # info.parameters.rlwe_n + 1 THEN "panic"
        ELSE mod_add(InnerProduct(Tail(lwe_ct), neg_s, q), e % q, q)

\* the sum modulo q of the first n decryption shares
RECURSIVE SumDecShares(_, _, _)
SumDecShares(shares, q, n) ==
    IF n = 0 THEN 0 ELSE mod_add(SumDecShares(shares, q, n - 1), shares[n], q)

\* BoolEvaluator::multi_party_decrypt
multi_party_decrypt(info, shares, lwe_ct) ==
    LET q == info.parameters.rlwe_q
        encoded_m == mod_add(lwe_ct[1], SumDecShares(shares, q, Len(shares)), q)
    IN  bool_of_index(bool_index(encoded_m, q))

-----------------------------------------------------------------------------
(* Multi-party protocol: parties, key aggregation, collective decryption   *)

MaxParties == 2

MpParameters ==
    [rlwe_q |-> 97, lwe_q |-> 16, br_q |-> 8, rlwe_n |-> 4, lwe_n |-> 2, g |-> 5,
     logb_lwe |-> 2, d_lwe |-> 2, logb_auto |-> 4, d_auto |-> 2]

\* the parameter sets a party's evaluator may have been built with
MpParameterSets == {MpParameters, [MpParameters EXCEPT !.rlwe_q = 113]}

\* the common reference seeds a share can be generated from
CrSeeds == 0..1

NoShares == <<>>
NoEnc == [kind |-> "none"]

MpInit ==
    /\ mp = [pc |-> "setup", info |-> BoolEvaluator_new(MpParameters),
             parties |-> <<>>, pk_shares |-> NoShares, pk |-> Panicked,
             sk_shares |-> NoShares, server_key |-> Panicked,
             ct |-> NoCt, enc |-> NoEnc, dec_shares |-> <<>>, dec_noise |-> <<>>,
             m_back |-> "none", sk_back |-> "none"]
    /\ lw = LwIdle
    /\ ev = EvIdle

\* a party builds its evaluator, generates its client key and its share of
\* the collective public key (tests::multi_party_encryption_decryption)
MpJoin(seeds, parameter_sets) ==
    /\ mp.pc = "setup"
    /\ Len(mp.parties) < MaxParties
    /\ \E s \in 0..1, cr_seed \in seeds, P \in parameter_sets, k \in 0..1 :
        LET info == BoolEvaluator_new(P)
            ck == [sk_rlwe |-> TernaryOfSeed(2 * Len(mp.parties) + s, P.rlwe_n),
                   sk_lwe |-> TernaryOfSeed(Len(mp.parties) + s, P.lwe_n)]
            e == ErrorRows(k, 1, P.rlwe_n)[1]
        IN  mp' = [mp EXCEPT
                     !.parties = Append(@, [ck |-> ck, info |-> info, e |-> e]),
                     !.pk_shares = Append(@, multi_party_public_key_share(info, cr_seed, ck, e))]
    /\ UNCHANGED <<lw, ev>>

MpJoinAgreed == MpJoin({0}, {MpParameters})
MpJoinAny == MpJoin(CrSeeds, MpParameterSets)

\* PublicKey::from over the shares received so far
MpAggregatePk ==
    /\ mp.pc = "setup"
    /\ mp' = [mp EXCEPT !.pc = "pk", !.pk = PublicKey_from(mp.pk_shares)]
    /\ UNCHANGED <<lw, ev>>

\* the next party generates its server key share
MpServerKeyShare ==
    /\ mp.pc = "pk"
    /\ mp.pk # Panicked
    /\ Len(mp.sk_shares) < Len(mp.parties)
    /\ \E cr_seed \in CrSeeds, P \in MpParameterSets :
        LET party == mp.parties[Len(mp.sk_shares) + 1]
        IN  mp' = [mp EXCEPT !.sk_shares =
                     Append(@, multi_party_server_key_share(BoolEvaluator_new(P), cr_seed,
                                                            party.ck, 1))]
    /\ UNCHANGED <<lw, ev>>

\* aggregate_multi_party_server_key_shares over the shares received so far
MpAggregateServerKey ==
    /\ mp.pc = "pk"
    /\ mp' = [mp EXCEPT !.pc = "keyed",
                        !.server_key = aggregate_multi_party_server_key_shares(mp.sk_shares)]
    /\ UNCHANGED <<lw, ev>>

MpKeysNext == MpJoinAny \/ MpAggregatePk \/ MpServerKeyShare \/ MpAggregateServerKey

SpecMpKeys == MpInit /\ [][MpKeysNext]_vars

\* BoolEvaluator::pk_encrypt under the collective public key
MpPkEncrypt ==
    /\ mp.pc = "pk"
    /\ mp.pk # Panicked
    /\ \E m \in BOOLEAN, s \in 0..1, k \in 0..1 :
        LET N == mp.info.parameters.rlwe_n
            u == TernaryOfSeed(s, N)
            e0 == ErrorRows(k, 2, N)[1]
            e1 == ErrorRows(k, 2, N)[2]
        IN  mp' = [mp EXCEPT !.pc = "ct",
                             !.ct = pk_encrypt(mp.info, mp.pk, m, u, e0, e1),
                             !.enc = [kind |-> "pk", m |-> m, u |-> u, e0 |-> e0, e1 |-> e1]]
    /\ UNCHANGED <<lw, ev>>

\* the parties are handed a ciphertext that was produced elsewhere
MpTakeCiphertext ==
    /\ mp.pc = "pk"
    /\ mp.pk # Panicked
    /\ \E seed \in 0..3 :
        mp' = [mp EXCEPT !.pc = "ct",
                         !.ct = PrngRows(seed, 0, 1, mp.info.parameters.rlwe_n + 1,
                                         mp.info.parameters.rlwe_q)[1],
                         !.enc = [kind |-> "given"]]
    /\ UNCHANGED <<lw, ev>>

\* the next party generates its decryption share
MpDecryptionShare ==
    /\ mp.pc = "ct"
    /\ Len(mp.dec_shares) < Len(mp.parties)
    /\ \E e \in {-1, 0, 1} :
        LET party == mp.parties[Len(mp.dec_shares) + 1]
        IN  mp' = [mp EXCEPT
                     !.dec_shares = Append(@, multi_party_decryption_share(mp.info, mp.ct,
                                                                           party.ck, e)),
                     !.dec_noise = Append(@, e)]
    /\ UNCHANGED <<lw, ev>>

\* the sum, as integers, of the parties' RLWE secrets: the ideal secret
RECURSIVE IdealSecret(_, _)
IdealSecret(parties, n) ==
    IF n = 0 THEN Zeros(MpParameters.rlwe_n)
    ELSE LET acc == Force(IdealSecret(parties, n - 1))
         IN  [i \in 1..Len(acc) |-> acc[i] + parties[n].ck.sk_rlwe[i]]

\* BoolEvaluator::multi_party_decrypt over all the parties' shares, next to
\* sk_decrypt under the ideal secret
MpDecrypt ==
    /\ mp.pc = "ct"
    /\ Len(mp.dec_shares) = Len(mp.parties)
    /\ mp' = [mp EXCEPT !.pc = "decrypted",
                        !.m_back = multi_party_decrypt(mp.info, mp.dec_shares, mp.ct),
                        !.sk_back = sk_decrypt(mp.ct, IdealSecret(mp.parties, Len(mp.parties)),
                                               mp.info.parameters.rlwe_q)]
    /\ UNCHANGED <<lw, ev>>

MpNext ==
    MpJoinAgreed \/ MpAggregatePk \/ MpPkEncrypt \/ MpTakeCiphertext \/ MpDecryptionShare
        \/ MpDecrypt

SpecMp == MpInit /\ [][MpNext]_vars



-----------------------------------------------------------------------------
(* Multi-party properties                                                  *)

RECURSIVE SumInts(_, _)
SumInts(s, n) == IF n = 0 THEN 0 ELSE SumInts(s, n - 1) + s[n]

\* the ideal secret and the phase b - <a, s> of the ciphertext under it
MpIdealSecret == IdealSecret(mp.parties, Len(mp.parties))
MpSkPhase == decrypt_lwe(mp.ct, MpIdealSecret, mp.info.parameters.rlwe_q)
\* the total noise of the decryption shares
MpShareNoise == SumInts(mp.dec_noise, Len(mp.dec_noise))
\* the value multi_party_decrypt rounds: b plus the sum of the shares
MpSharedPhase ==
    mod_add(mp.ct[1], SumDecShares(mp.dec_shares, mp.info.parameters.rlwe_q, Len(mp.dec_shares)),
            mp.info.parameters.rlwe_q)
\* the error of the collective public key: the sum of the shares' errors
MpPkError ==
    [c \in 1..mp.info.parameters.rlwe_n |->
        SumInts([p \in 1..Len(mp.parties) |-> mp.parties[p].e[c]], Len(mp.parties))]
\* the noise of a public-key encryption: (e_pk * u + e1 - e0 * s)[0]
MpPkNoise ==
    LET q == mp.info.parameters.rlwe_q
    IN  Centered(poly_mul(try_convert_from(MpPkError, q), mp.enc.u, q)[1] + mp.enc.e1[1]
                    - poly_mul(try_convert_from(mp.enc.e0, q), MpIdealSecret, q)[1], q)
\* the noise of the ciphertext around the bit sk_decrypt returns
MpDecodedNoise ==
    Centered(MpSkPhase - encode_bool(mp.sk_back = "true", mp.info.parameters.rlwe_q),
             mp.info.parameters.rlwe_q)

\* C6: over the shares -<a, s_p> + e_p of all parties, multi_party_decrypt
\* decides on the phase of the ciphertext under the summed secret plus the
\* total share noise, so it returns the bit sk_decrypt returns under the
\* summed secret while that noise stays within the margin; a pk_encrypt
\* ciphertext under the aggregated public key has the phase
\* encode(m) + (e_pk * u + e1 - e0 * s)[0] and decrypts collectively to m.
C6_CollectiveDecrypt ==
    mp.pc = "decrypted" =>
        LET q == mp.info.parameters.rlwe_q
        IN  /\ mp.m_back = bool_of_index(bool_index((MpSkPhase + MpShareNoise) % q, q))
            /\ (MpShareNoise = 0) => (mp.m_back = mp.sk_back)
            /\ (/\ mp.sk_back # "panic"
                /\ WithinRoundedEighth(MpDecodedNoise, q)
                /\ WithinRoundedEighth(MpDecodedNoise + MpShareNoise, q))
                    => (mp.m_back = mp.sk_back)
            /\ (mp.enc.kind = "pk") =>
                /\ MpSkPhase = (encode_bool(mp.enc.m, q) + MpPkNoise) % q
                /\ (/\ WithinRoundedEighth(MpPkNoise, q)
                    /\ WithinRoundedEighth(MpPkNoise + MpShareNoise, q))
                        => (mp.m_back = Outcome(mp.enc.m) /\ mp.sk_back = Outcome(mp.enc.m))

C6_Witness ==
    /\ mp.pc = "decrypted"
    /\ Len(mp.parties) = 2
    /\ mp.enc.kind = "pk"
    /\ mp.enc.m
    /\ MpPkNoise # 0
    /\ MpShareNoise # 0
    /\ mp.m_back = "true"
    /\ mp.sk_back = "true"

\* the index k of the multiple of Q/4 nearest to v + Q/8, modulo 4
QuarterIndex(v, q) ==
    CHOOSE k \in 0..3 :
        \E j \in {k, k + 4} :
            LET d == 2 * (4 * (v + rlweq_by8(q)) - j * q)
            IN  -q <= d /\ d < q

IndexRule(idx, outcome) ==
    /\ (idx = 0) => (outcome = "false")
    /\ (idx = 1) => (outcome = "true")
    /\ (idx \in {2, 3}) => (outcome = "panic")

\* C7: sk_decrypt rounds b - <a, s> and multi_party_decrypt rounds b plus
\* the sum of the shares, offset by Q/8, to a multiple of Q/4; index 0 is
\* false, index 1 is true, and index 2 or 3 is a panic, never a boolean.
C7_DecryptIndex ==
    mp.pc = "decrypted" =>
        /\ IndexRule(QuarterIndex(MpSharedPhase, mp.info.parameters.rlwe_q), mp.m_back)
        /\ IndexRule(QuarterIndex(MpSkPhase, mp.info.parameters.rlwe_q), mp.sk_back)

C7_Witness ==
    /\ mp.pc = "decrypted"
    /\ Len(mp.parties) = 2
    /\ QuarterIndex(MpSharedPhase, mp.info.parameters.rlwe_q) = 2
    /\ QuarterIndex(MpSkPhase, mp.info.parameters.rlwe_q) = 2
    /\ mp.m_back = "panic"
    /\ mp.sk_back = "panic"

\* some share of the list differs from the first in cr_seed or parameters
Mismatch(shares) ==
    \E i \in 1..Len(shares) :
        shares[i].cr_seed # shares[1].cr_seed \/ shares[i].parameters # shares[1].parameters

\* C8: PublicKey::from and aggregate_multi_party_server_key_shares fail, and
\* produce no aggregated key, when the share list is empty or a share's
\* cr_seed or parameter set differs from the first share's; they produce a
\* key otherwise.
C8_AggregationRejects ==
    /\ (mp.pc \in {"pk", "keyed"}) =>
          ((mp.pk = Panicked) <=> (Len(mp.pk_shares) = 0 \/ Mismatch(mp.pk_shares)))
    /\ (mp.pc = "keyed") =>
          ((mp.server_key = Panicked) <=> (Len(mp.sk_shares) = 0 \/ Mismatch(mp.sk_shares)))

C8_Witness ==
    /\ mp.pc = "keyed"
    /\ Len(mp.sk_shares) = 2
    /\ mp.sk_shares[1].cr_seed # mp.sk_shares[2].cr_seed
    /\ mp.sk_shares[1].parameters = mp.sk_shares[2].parameters
    /\ mp.server_key = Panicked
    /\ mp.pk # Panicked

\* the list of shares reordered by the permutation p
Reordered(shares, p) == [i \in 1..Len(shares) |-> shares[p[i]]]

\* C9: the aggregated public key is (A, B), A the polynomial the PRNG seeded
\* with the common cr_seed yields and B the coefficient-wise sum modulo Q of
\* the shares, whatever the order of the shares.
C9_AggregatedPublicKey ==
    (mp.pc \in {"pk", "keyed"} /\ mp.pk # Panicked) =>
        LET P == mp.pk_shares[1].parameters
            n == Len(mp.pk_shares)
        IN  /\ mp.pk[1] = PrngRows(mp.pk_shares[1].cr_seed, 0, 1, P.rlwe_n, P.rlwe_q)[1]
            /\ \A c \in 1..P.rlwe_n :
                  mp.pk[2][c] = SumInts([i \in 1..n |-> mp.pk_shares[i].share[c]], n) % P.rlwe_q
            /\ \A p \in Permutations(1..n) : PublicKey_from(Reordered(mp.pk_shares, p)) = mp.pk

C9_Witness ==
    /\ mp.pc = "pk"
    /\ mp.pk # Panicked
    /\ Len(mp.pk_shares) = 2
    /\ mp.pk_shares[1].share # mp.pk_shares[2].share
    /\ \E c \in 1..Len(mp.pk[2]) :
          mp.pk_shares[1].share[c] + mp.pk_shares[2].share[c] >= mp.pk_shares[1].parameters.rlwe_q

\* the auto keys of the aggregated server key are the sums modulo Q
AutoKeysSummed ==
    LET P == mp.server_key.parameters
        n == Len(mp.sk_shares)
    IN  /\ DOMAIN mp.server_key.auto_keys = {P.g, -P.g}
        /\ \A a \in {P.g, -P.g} : \A j \in 1..P.d_auto : \A c \in 1..P.rlwe_n :
              mp.server_key.auto_keys[a][j][c]
                  = SumInts([i \in 1..n |-> mp.sk_shares[i].auto_keys[a][j][c]], n) % P.rlwe_q

\* the LWE key-switching key of the aggregated server key is the sum modulo q
LweKskSummed(q) ==
    LET P == mp.server_key.parameters
        n == Len(mp.sk_shares)
    IN  \A r \in 1..(P.rlwe_n * P.d_lwe) :
            mp.server_key.lwe_ksk[r] = SumInts([i \in 1..n |-> mp.sk_shares[i].lwe_ksk[r]], n) % q

\* C10 (as stated): the aggregator sums the B-halves of the auto keys for g
\* and -g and the LWE key-switching-key entries under the RLWE modulus Q.
C10_AsStated ==
    (mp.pc = "keyed" /\ mp.server_key # Panicked) =>
        (AutoKeysSummed /\ LweKskSummed(mp.server_key.parameters.rlwe_q))

\* C10: the aggregator sums the B-halves of the auto keys for g and -g
\* under the RLWE modulus Q, and the LWE key-switching-key entries under the
\* LWE modulus Q_ks.
C10_AggregateSums ==
    (mp.pc = "keyed" /\ mp.server_key # Panicked) =>
        (AutoKeysSummed /\ LweKskSummed(mp.server_key.parameters.lwe_q))

C10_Witness ==
    /\ mp.pc = "keyed"
    /\ mp.server_key # Panicked
    /\ Len(mp.sk_shares) = 2
    /\ \E r \in 1..Len(mp.server_key.lwe_ksk) :
          mp.sk_shares[1].lwe_ksk[r] + mp.sk_shares[2].lwe_ksk[r] >= mp.server_key.parameters.lwe_q
    /\ \E a \in DOMAIN mp.server_key.auto_keys : \E j \in 1..2 : \E c \in 1..4 :
          mp.sk_shares[1].auto_keys[a][j][c] + mp.sk_shares[2].auto_keys[a][j][c]
              >= mp.server_key.parameters.rlwe_q



-----------------------------------------------------------------------------
(* pbs as a total operation                                                *)

\* the steps blind_rotation ran in this pbs
PbsSteps == blind_rotation_steps(ev.info.parameters.g, ev.info.parameters.br_q, ev.run.g_k_si)

-----------------------------------------------------------------------------
(* Construction of an evaluator                                            *)

MaxDecomp == 3

\* ScratchMemory::new
ScratchMemory_new_mutant(P) ==
    [lwe_vector |-> Zeros(P.lwe_n + 1),
     decomposition_matrix |->
        [r \in 1..(P.d_auto + 2) |-> Zeros(P.rlwe_n)]]
ScratchMemory_new(P) ==
    LET d == Max(P.d_auto, Max(P.rlwe_rgsw_d[1], P.rlwe_rgsw_d[2])) + 2
    IN  [lwe_vector |-> Zeros(P.lwe_n + 1),
         decomposition_matrix |-> [r \in 1..d |-> Zeros(P.rlwe_n)]]

\* the parameter sets an evaluator is asked to be built with, those whose
\* br_q does not divide 2 * rlwe_n included
CandidateParameters ==
    {[rlwe_q |-> 97, lwe_q |-> 16, br_q |-> br_q, rlwe_n |-> rlwe_n, lwe_n |-> lwe_n, g |-> 5,
      logb_lwe |-> 2, d_lwe |-> 2, d_auto |-> d_auto, rlwe_rgsw_d |-> <<d_a, d_b>>] :
        br_q \in {4, 8, 16, 32}, rlwe_n \in {2, 4, 8}, lwe_n \in {1, 2},
        d_auto \in 1..MaxDecomp, d_a \in 1..MaxDecomp, d_b \in 1..MaxDecomp}

NewInit ==
    /\ ev = [pc |-> "start"]
    /\ lw = LwIdle
    /\ mp = MpIdle

\* BoolEvaluator::new(parameters)
EvaluatorNew ==
    /\ ev.pc = "start"
    /\ \E P \in CandidateParameters :
        ev' = [pc |-> "new", parameters |-> P, pbs_info |-> BoolEvaluator_new(P),
               scratch_memory |-> ScratchMemory_new(P)]
    /\ UNCHANGED <<lw, mp>>

NewNext == EvaluatorNew

SpecNew == NewInit /\ [][NewNext]_vars

\* a parameter set the blind rotation can work with: br_q divides 2 * rlwe_n
ValidParameters(P) == (2 * P.rlwe_n) % P.br_q = 0

\* C12: constructing an evaluator with an invalid parameter set, such as one
\* whose br_q does not divide 2 * rlwe_n, fails instead of returning an
\* evaluator.
C12_InvalidRejected ==
    (ev.pc = "new" /\ ~ValidParameters(ev.parameters)) => (ev.pbs_info = Panicked)

\* C18 (as stated): the scratch memory is an LWE vector of length n + 1 and
\* a matrix of max(d_auto, dA, dB) + (2 dA + 2 dB) rows of length N.
C18_AsStated ==
    ev.pc = "new" =>
        LET P == ev.parameters
        IN  /\ Len(ev.scratch_memory.lwe_vector) = P.lwe_n + 1
            /\ Len(ev.scratch_memory.decomposition_matrix)
                  = Max(P.d_auto, Max(P.rlwe_rgsw_d[1], P.rlwe_rgsw_d[2]))
                      + (2 * P.rlwe_rgsw_d[1] + 2 * P.rlwe_rgsw_d[2])
            /\ \A r \in 1..Len(ev.scratch_memory.decomposition_matrix) :
                  Len(ev.scratch_memory.decomposition_matrix[r]) = P.rlwe_n

\* C18: the scratch memory built at construction is a zero LWE vector of
\* length n + 1 and a zero matrix of max(d_auto, dA, dB) + 2 rows of
\* length N.
C18_ScratchMemory ==
    ev.pc = "new" =>
        LET P == ev.parameters
            d_max == CHOOSE d \in {P.d_auto, P.rlwe_rgsw_d[1], P.rlwe_rgsw_d[2]} :
                        d >= P.d_auto /\ d >= P.rlwe_rgsw_d[1] /\ d >= P.rlwe_rgsw_d[2]
        IN  /\ ev.scratch_memory.lwe_vector = [i \in 1..(P.lwe_n + 1) |-> 0]
            /\ Len(ev.scratch_memory.decomposition_matrix) = d_max + 2
            /\ \A r \in 1..Len(ev.scratch_memory.decomposition_matrix) :
                  ev.scratch_memory.decomposition_matrix[r] = [i \in 1..P.rlwe_n |-> 0]

C18_Witness ==
    /\ ev.pc = "new"
    /\ ev.parameters.d_auto < ev.parameters.rlwe_rgsw_d[1]
    /\ ev.parameters.rlwe_rgsw_d[1] < ev.parameters.rlwe_rgsw_d[2]
    /\ Len(ev.scratch_memory.decomposition_matrix) = ev.parameters.rlwe_rgsw_d[2] + 2
    /\ Len(ev.scratch_memory.lwe_vector) = 3



-----------------------------------------------------------------------------
(* The PBS tracer                                                          *)

\* PBSTracer::default()
PBSTracer_default ==
    [ct_rlwe_q_mod |-> <<>>, ct_lwe_q_mod |-> <<>>, ct_lwe_q_mod_after_ksk |-> <<>>,
     ct_br_q_mod |-> <<>>]

\* pbs run while the thread-local tracer holds t: each with_local_mut call
\* assigns one field of the tracer, and nothing is read from it
pbs_traced_mutant(t, info, test_vec, lwe_in, pbs_key, fresh) ==
    LET run == pbs(info, test_vec, (IF t.ct_rlwe_q_mod = <<>> THEN lwe_in ELSE t.ct_rlwe_q_mod),
                   pbs_key, fresh)
    IN  [lwe_out |-> run.lwe_out,
         tracer |-> [f \in DOMAIN t |-> IF f \in DOMAIN run.tracer THEN run.tracer[f] ELSE t[f]]]
pbs_traced(t, info, test_vec, lwe_in, pbs_key, fresh) ==
    LET run == pbs(info, test_vec, lwe_in, pbs_key, fresh)
    IN  [lwe_out |-> run.lwe_out,
         tracer |-> [f \in DOMAIN t |-> IF f \in DOMAIN run.tracer THEN run.tracer[f] ELSE t[f]]]

\* the inputs of the traced runs
TracerInputs == 0..3

\* what the tracer can hold when pbs starts: nothing, or what an earlier pbs
\* of this thread left in it
TracerContents(info, pbs_key) ==
    {PBSTracer_default}
        \cup {pbs_traced(PBSTracer_default, info, info.nand_test_vec,
                         SeededRows(seed + 4, 1, info.parameters.rlwe_n + 1,
                                    info.parameters.rlwe_q)[1],
                         pbs_key, [a |-> Zeros(info.parameters.rlwe_n),
                                   e |-> Zeros(info.parameters.rlwe_n)]).tracer :
                seed \in 0..1}

\* the same pbs, run once with the tracer holding t1 and once with it
\* holding t2
TracedRuns ==
    /\ ev.pc = "pbs_ready"
    /\ \E seed \in TracerInputs,
          fresh \in PbsFreshSample(ev.info.parameters.rlwe_n, ev.info.parameters.rlwe_q),
          t1 \in TracerContents(ev.info, ev.sk), t2 \in TracerContents(ev.info, ev.sk) :
        LET P == ev.info.parameters
            lwe_in == SeededRows(seed, 1, P.rlwe_n + 1, P.rlwe_q)[1]
        IN  ev' = [pc |-> "traced", info |-> ev.info, ck |-> ev.ck, sk |-> ev.sk,
                   lwe_in |-> lwe_in, fresh |-> fresh, t1 |-> t1, t2 |-> t2,
                   run1 |-> pbs_traced(t1, ev.info, ev.info.nand_test_vec, lwe_in, ev.sk, fresh),
                   run2 |-> pbs_traced(t2, ev.info, ev.info.nand_test_vec, lwe_in, ev.sk, fresh)]
    /\ UNCHANGED <<lw, mp>>

TracerNext == TracedRuns

SpecTracer == PbsInit /\ [][TracerNext]_vars

\* C13: two runs of pbs on the same inputs and key give the same output
\* ciphertext whatever the tracer held before; pbs only overwrites the
\* tracer, so that after the run the tracer does not depend on what it held.
C13_TracerNoEffect ==
    ev.pc = "traced" =>
        /\ ev.run1.lwe_out = ev.run2.lwe_out
        /\ ev.run1.lwe_out = pbs(ev.info, ev.info.nand_test_vec, ev.lwe_in, ev.sk, ev.fresh).lwe_out
        /\ ev.run1.tracer = ev.run2.tracer
        /\ ev.run1.tracer.ct_rlwe_q_mod = ev.lwe_in

C13_Witness ==
    /\ ev.pc = "traced"
    /\ ev.t1 = PBSTracer_default
    /\ ev.t2 # PBSTracer_default
    /\ ev.t2.ct_rlwe_q_mod # ev.lwe_in
    /\ ev.run1.lwe_out # Panicked
    /\ ev.run1.lwe_out = ev.run2.lwe_out
    /\ ev.run2.tracer # ev.t2

-----------------------------------------------------------------------------
(* Seeded server keys and their conversion to the evaluation domain.  A   *)
(* seeded PRNG is the stream Prng(seed, 1), Prng(seed, 2), ...; a fill of  *)
(* rows starting after `offset` consumed elements is PrngRows(seed,        *)
(* offset, ...).                                                            *)

\* the decomposers of RLWE x RGSW: (dA, dB) digits for RLWE'(-sm), RLWE'(m)
rlwe_rgsw_decomposer(P) ==
    <<[q |-> P.rlwe_q, logb |-> P.logb_rgsw, d |-> P.rlwe_rgsw_d[1]],
      [q |-> P.rlwe_q, logb |-> P.logb_rgsw, d |-> P.rlwe_rgsw_d[2]]>>

\* the monomial X^{si} of an embedded secret element: -X^{N-|si|} if si < 0
secret_monomial(si, ring_size, q) ==
    [c \in 1..ring_size |->
        IF si < 0 THEN (IF c - 1 = ring_size - Abs(si) THEN q - 1 ELSE 0)
        ELSE (IF c - 1 = si THEN 1 ELSE 0)]

\* secret_key_encrypt_rgsw: rows RLWE'_A(-sm), RLWE'_B(-sm) with masks a
\* from the ephemeral generator, then RLWE'_B(m) whose masks A come from
\* the seeded PRNG and are not stored
secret_key_encrypt_rgsw(m, gadget_a, gadget_b, s, q, A, a, E) ==
    LET d_a == Len(gadget_a)
        d_b == Len(gadget_b)
        N == Len(s)
    IN  [j \in 1..d_a |-> [c \in 1..N |-> (a[j][c] + m[c] * gadget_a[j]) % q]]
        \o [j \in 1..d_a |-> [c \in 1..N |-> (poly_mul(a[j], s, q)[c] + E[j][c]) % q]]
        \o [j \in 1..d_b |->
               [c \in 1..N |-> (poly_mul(A[j], s, q)[c] + E[d_a + j][c] + m[c] * gadget_b[j]) % q]]

\* the number of elements main_prng has produced before each part of
\* BoolEvaluator::server_key starts
auto_offset(P, k) == IF k = P.g THEN 0 ELSE P.d_auto * P.rlwe_n
rgsw_offset(P, i) == 2 * P.d_auto * P.rlwe_n + (i - 1) * P.rlwe_rgsw_d[2] * P.rlwe_n
ksk_offset(P) == rgsw_offset(P, P.lwe_n + 1)

\* BoolEvaluator::server_key: one PRNG seeded with main_seed fills the
\* masks of the auto key of g, of -g, of RLWE'(m) of every RGSW ciphertext
\* and of the LWE key-switching key
seeded_server_key(info, ck, main_seed, k) ==
    LET P == info.parameters
        N == P.rlwe_n
        q == P.rlwe_q
        decomps == rlwe_rgsw_decomposer(P)
        d_a == P.rlwe_rgsw_d[1]
        d_b == P.rlwe_rgsw_d[2]
        ksk_rows == N * P.d_lwe
        ksk == lwe_ksk_keygen(ck.sk_rlwe, ck.sk_lwe, gadget_vector(info.lwe_decomposer), P.lwe_q,
                              PrngRows(main_seed, ksk_offset(P), ksk_rows, P.lwe_n, P.lwe_q),
                              ErrorPattern(k, ksk_rows))
    IN  [auto_keys |->
            [a \in {P.g, -P.g} |->
                galois_key_gen(ck.sk_rlwe, a, gadget_vector(auto_decomposer(P)), q,
                               PrngRows(main_seed, auto_offset(P, a), P.d_auto, N, q),
                               ErrorRows(k, P.d_auto, N))],
         rgsw_cts |->
            [i \in 1..Len(ck.sk_lwe) |->
                secret_key_encrypt_rgsw(
                    secret_monomial(ck.sk_lwe[i] * info.embedding_factor, N, q),
                    gadget_vector(decomps[1]), gadget_vector(decomps[2]), ck.sk_rlwe, q,
                    PrngRows(main_seed, rgsw_offset(P, i), d_b, N, q),
                    PrngRows(main_seed + MaxSeed + 1, (i - 1) * d_a * N, d_a, N, q),
                    ErrorRows(k + i, d_a + d_b, N))],
         lwe_ksk |-> [r \in 1..ksk_rows |-> ksk[r][1]],
         seed |-> main_seed,
         parameters |-> P]

\* the forward NTT of a polynomial: an invertible change of representation
ntt_forward(row) == [evaluation |-> row]

\* ServerKeyEvaluationDomain::from(&SeededServerKey): the masks are drawn
\* again from a PRNG seeded with value.seed, auto key of g, auto key of -g,
\* the RGSW ciphertexts in order, then the LWE key-switching key
ServerKeyEvaluationDomain_from_mutant(value) ==
    LET P == value.parameters
        N == P.rlwe_n
        d_a == P.rlwe_rgsw_d[1]
        d_b == P.rlwe_rgsw_d[2]
    IN  [galois_keys |->
            [k \in {P.g, -P.g} |->
                [j \in 1..(2 * P.d_auto) |->
                    ntt_forward((PrngRows(value.seed, auto_offset(P, -k), P.d_auto, N, P.rlwe_q)
                                    \o value.auto_keys[k])[j])]],
         rgsw_cts |->
            [i \in 1..Len(value.rgsw_cts) |->
                [j \in 1..(2 * d_a + 2 * d_b) |->
                    ntt_forward((SubSeq(value.rgsw_cts[i], 1, 2 * d_a)
                                    \o PrngRows(value.seed, rgsw_offset(P, i), d_b, N, P.rlwe_q)
                                    \o SubSeq(value.rgsw_cts[i], 2 * d_a + 1, 2 * d_a + d_b))[j])]],
         lwe_ksk |->
            [r \in 1..(P.d_lwe * N) |->
                <<value.lwe_ksk[r]>>
                    \o PrngRows(value.seed, ksk_offset(P), P.d_lwe * N, P.lwe_n, P.lwe_q)[r]]]
ServerKeyEvaluationDomain_from(value) ==
    LET P == value.parameters
        N == P.rlwe_n
        d_a == P.rlwe_rgsw_d[1]
        d_b == P.rlwe_rgsw_d[2]
        \* main_prng position when the RGSW ciphertexts start, then the ksk
        after_auto == 2 * P.d_auto * N
        after_rgsw == after_auto + Len(value.rgsw_cts) * d_b * N
    IN  [galois_keys |->
            [k \in {P.g, -P.g} |->
                [j \in 1..(2 * P.d_auto) |->
                    ntt_forward((PrngRows(value.seed, (IF k = P.g THEN 0 ELSE P.d_auto * N),
                                          P.d_auto, N, P.rlwe_q)
                                    \o value.auto_keys[k])[j])]],
         rgsw_cts |->
            [i \in 1..Len(value.rgsw_cts) |->
                [j \in 1..(2 * d_a + 2 * d_b) |->
                    ntt_forward((SubSeq(value.rgsw_cts[i], 1, 2 * d_a)
                                    \o PrngRows(value.seed, after_auto + (i - 1) * d_b * N, d_b, N,
                                                P.rlwe_q)
                                    \o SubSeq(value.rgsw_cts[i], 2 * d_a + 1, 2 * d_a + d_b))[j])]],
         lwe_ksk |->
            [r \in 1..(P.d_lwe * N) |->
                <<value.lwe_ksk[r]>>
                    \o PrngRows(value.seed, after_rgsw, P.d_lwe * N, P.lwe_n, P.lwe_q)[r]]]

\* ServerKeyEvaluationDomain::from(&SeededMultiPartyServerKey): the PRNG
\* seeded with cr_seed fills the masks of the auto key of g, of -g and of
\* the LWE key-switching key; the RGSW ciphertexts carry no seeded part
ServerKeyEvaluationDomain_from_multi_party(value) ==
    LET P == value.parameters
        N == P.rlwe_n
    IN  [galois_keys |->
            [k \in {P.g, -P.g} |->
                [j \in 1..(2 * P.d_auto) |->
                    ntt_forward((PrngRows(value.cr_seed, (IF k = P.g THEN 0 ELSE P.d_auto * N),
                                          P.d_auto, N, P.rlwe_q)
                                    \o value.auto_keys[k])[j])]],
         rgsw_cts |-> value.rgsw_cts,
         lwe_ksk |->
            [r \in 1..(P.d_lwe * N) |->
                <<value.lwe_ksk[r]>>
                    \o PrngRows(value.cr_seed, 2 * P.d_auto * N, P.d_lwe * N, P.lwe_n, P.lwe_q)[r]]]

-----------------------------------------------------------------------------
(* Seeded key generation followed by the conversion                        *)

SeededParameters ==
    [rlwe_q |-> 97, lwe_q |-> 16, br_q |-> 8, rlwe_n |-> 4, lwe_n |-> 2, g |-> 5,
     logb_lwe |-> 2, d_lwe |-> 2, logb_auto |-> 4, d_auto |-> 2,
     logb_rgsw |-> 3, rlwe_rgsw_d |-> <<1, 2>>]

SeededInit ==
    /\ ev = [pc |-> "new", info |-> BoolEvaluator_new(SeededParameters)]
    /\ lw = LwIdle
    /\ mp = MpIdle

\* client_key then server_key of one evaluator
SeededServerKeyGen ==
    /\ ev.pc = "new"
    /\ \E seed \in 0..1, sk_lwe \in TernaryVectors(SeededParameters.lwe_n),
          main_seed \in 0..MaxSeed, k \in 0..1 :
        LET ck == [sk_rlwe |-> TernaryOfSeed(seed, SeededParameters.rlwe_n), sk_lwe |-> sk_lwe]
        IN  ev' = [pc |-> "seeded", kind |-> "single", info |-> ev.info, cks |-> <<ck>>, k |-> k,
                   key |-> seeded_server_key(ev.info, ck, main_seed, k)]
    /\ UNCHANGED <<lw, mp>>

\* every party's multi_party_server_key_share, then their aggregation
SeededMultiPartyKeyGen ==
    /\ ev.pc = "new"
    /\ \E n \in 1..MaxParties, cr_seed \in 0..MaxSeed :
        \E seeds \in [1..n -> 0..1], lwe_seeds \in [1..n -> 0..2] :
            LET cks == [p \in 1..n |->
                            [sk_rlwe |-> TernaryOfSeed(seeds[p], SeededParameters.rlwe_n),
                             sk_lwe |-> TernaryOfSeed(lwe_seeds[p], SeededParameters.lwe_n)]]
                shares == [p \in 1..n |-> multi_party_server_key_share(ev.info, cr_seed, cks[p], 1)]
            IN  ev' = [pc |-> "seeded", kind |-> "multi", info |-> ev.info, cks |-> cks, k |-> 1,
                       key |-> aggregate_multi_party_server_key_shares(shares)]
    /\ UNCHANGED <<lw, mp>>

ToEvaluationDomain ==
    /\ ev.pc = "seeded"
    /\ ev' = [ev EXCEPT !.pc = "evaluation",
                        !.key = IF ev.kind = "single" THEN ServerKeyEvaluationDomain_from(ev.key)
                                ELSE ServerKeyEvaluationDomain_from_multi_party(ev.key)]
    /\ UNCHANGED <<lw, mp>>

SeededNext == SeededServerKeyGen \/ SeededMultiPartyKeyGen \/ ToEvaluationDomain

SpecSeeded == SeededInit /\ [][SeededNext]_vars

\* the ideal secrets of the parties of the run: the sums of their secrets
SeededIdealRlwe ==
    [c \in 1..SeededParameters.rlwe_n |->
        SumInts([p \in 1..Len(ev.cks) |-> ev.cks[p].sk_rlwe[c]], Len(ev.cks))]
SeededIdealLwe ==
    [c \in 1..SeededParameters.lwe_n |->
        SumInts([p \in 1..Len(ev.cks) |-> ev.cks[p].sk_lwe[c]], Len(ev.cks))]

\* the phase B - A * s of row j of an RLWE' ciphertext of d rows A then d
\* rows B in the evaluation domain
RlwePrimePhase(rows, first, d, j, s, q) ==
    LET A == rows[first + j].evaluation
        B == rows[first + d + j].evaluation
    IN  [c \in 1..Len(A) |-> (B[c] - poly_mul(A, s, q)[c]) % q]

\* C14: after the conversion every auto-key row, every RLWE'(m) row of an
\* RGSW ciphertext and every LWE-KSK row decrypts, under the secret the
\* B-half was made with, to exactly the error and message of key generation:
\* the mask drawn again from the seed is the one the B-half was computed from
C14_SeededMasksAgree ==
    ev.pc = "evaluation" =>
        LET P == SeededParameters
            q == P.rlwe_q
            N == P.rlwe_n
            s == SeededIdealRlwe
            z == SeededIdealLwe
            parties == Len(ev.cks)
            auto_gadget == gadget_vector(auto_decomposer(P))
            gadget_b == gadget_vector(rlwe_rgsw_decomposer(P)[2])
            lwe_gadget == gadget_vector(lwe_decomposer(P))
            d_a == P.rlwe_rgsw_d[1]
            d_b == P.rlwe_rgsw_d[2]
        IN  /\ \A k \in {P.g, -P.g} : \A j \in 1..P.d_auto :
                   LET s_auto == apply_auto_map(try_convert_from(s, q), generate_auto_map(N, k), q)
                   IN  RlwePrimePhase(ev.key.galois_keys[k], 0, P.d_auto, j, s, q)
                         = [c \in 1..N |->
                               (parties * ErrorRows(ev.k, P.d_auto, N)[j][c]
                                  - s_auto[c] * auto_gadget[j]) % q]
            /\ ev.kind = "single" =>
                 \A i \in 1..P.lwe_n : \A j \in 1..d_b :
                    LET m == secret_monomial(z[i] * ev.info.embedding_factor, N, q)
                    IN  RlwePrimePhase(ev.key.rgsw_cts[i], 2 * d_a, d_b, j, s, q)
                          = [c \in 1..N |->
                                (ErrorRows(ev.k + i, d_a + d_b, N)[d_a + j][c] + m[c] * gadget_b[j]) % q]
            /\ \A r \in 1..(N * P.d_lwe) :
                   LET row == ev.key.lwe_ksk[r]
                       i == ((r - 1) \div P.d_lwe) + 1
                       j == ((r - 1) % P.d_lwe) + 1
                   IN  (row[1] - InnerProduct(SubSeq(row, 2, Len(row)), try_convert_from(z, P.lwe_q),
                                              P.lwe_q)) % P.lwe_q
                         = (parties * ErrorPattern(ev.k, N * P.d_lwe)[r] - s[i] * lwe_gadget[j]) % P.lwe_q

C14_Witness ==
    /\ ev.pc = "evaluation"
    /\ ev.kind = "single"
    /\ ev.k = 1
    /\ HammingWeight(ev.cks[1].sk_lwe) = SeededParameters.lwe_n
    /\ Len(ev.key.rgsw_cts[2]) = 2 * SeededParameters.rlwe_rgsw_d[1] + 2 * SeededParameters.rlwe_rgsw_d[2]
    /\ ev.key.galois_keys[-SeededParameters.g][1]
         # ev.key.galois_keys[SeededParameters.g][1]
    /\ Len(ev.key.lwe_ksk[1]) = SeededParameters.lwe_n + 1

-----------------------------------------------------------------------------
(* Ternary(h) sampling (math/src/distribution.rs)                          *)

MaxLen == 4
\* the content of a slice that was filled before sample_into
Prefilled == 5

DivCeil(a, b) == (a + b - 1) \div b
BitOf(byte, k) == (byte \div Pow(2, k)) % 2

\* the closure insert: sets bit idx % 8 of byte idx / 8 of the set and
\* returns whether it was clear before
insert_mutant(set, idx) ==
    [set |-> [set EXCEPT ![(idx \div 8) + 1] =
                 IF BitOf(@, idx % 8) = 0 THEN @ + Pow(2, idx % 8) ELSE @],
     is_none |-> TRUE]
insert(set, idx) ==
    [set |-> [set EXCEPT ![(idx \div 8) + 1] =
                 IF BitOf(@, idx % 8) = 0 THEN @ + Pow(2, idx % 8) ELSE @],
     is_none |-> BitOf(set[(idx \div 8) + 1], idx % 8) = 0]

\* the loop over the uniform index stream, from draw k on: it breaks as soon
\* as count reaches the Hamming weight; `used` is the number of draws read
RECURSIVE TernaryLoop(_, _, _, _, _)
TernaryLoop(set, count, draws, k, hamming_weight) ==
    IF k > Len(draws) THEN [set |-> set, count |-> count, used |-> k - 1, broke |-> FALSE]
    ELSE LET ins == insert(set, draws[k])
             c == count + (IF ins.is_none THEN 1 ELSE 0)
         IN  IF c = hamming_weight
             THEN [set |-> ins.set, count |-> c, used |-> k, broke |-> TRUE]
             ELSE TernaryLoop(ins.set, c, draws, k + 1, hamming_weight)

\* set.into_iter().flat_map(into_bits).positions(identity): the indices of
\* the set bits, ascending
RECURSIVE PositionsFrom(_, _)
PositionsFrom(set, i) ==
    IF i >= 8 * Len(set) THEN <<>>
    ELSE (IF BitOf(set[(i \div 8) + 1], i % 8) = 1 THEN <<i>> ELSE <<>>) \o PositionsFrom(set, i + 1)

\* Ternary::sample_map_into with f the identity: `draws` is the prefix of
\* the index stream the loop reads, `bits` the word rng.next_u64() returns
Ternary_sample_into(hamming_weight, out, draws, bits) ==
    IF hamming_weight = 0 THEN Panicked
    ELSE IF ~(hamming_weight <= Len(out)) THEN Panicked
    ELSE LET loop == TernaryLoop([b \in 1..DivCeil(Len(out), 8) |-> 0], 0, draws, 1, hamming_weight)
             indices == PositionsFrom(loop.set, 0)
         IN  [i \in 1..Len(out) |->
                 IF \E p \in 1..Len(indices) : indices[p] = i - 1
                 THEN LET p == CHOOSE x \in 1..Len(indices) : indices[x] = i - 1
                      IN  IF BitOf(bits, p - 1) = 1 THEN 1 ELSE -1
                 ELSE out[i]]

\* Ternary::sample_vec
Ternary_sample_vec(hamming_weight, n, draws, bits) ==
    Ternary_sample_into(hamming_weight, Zeros(n), draws, bits)

\* a stream prefix of distinct indices b with b[x] drawn again at place p
WithRepeat(b, p, x) ==
    [k \in 1..(Len(b) + 1) |-> IF k < p THEN b[k] ELSE IF k = p THEN b[x] ELSE b[k - 1]]

\* prefixes of the index stream on which the loop breaks at the last draw:
\* hamming_weight distinct indices, or the same with one index drawn twice
TerminatingDraws(n, hamming_weight) ==
    IF hamming_weight = 0 \/ hamming_weight > n THEN {<<>>}
    ELSE LET distinct == {d \in [1..hamming_weight -> 0..(n - 1)] :
                            \A x, y \in 1..hamming_weight : x # y => d[x] # d[y]}
         IN  distinct
                \cup UNION {{WithRepeat(d, p, x) : x \in 1..(p - 1)} :
                               d \in distinct, p \in 2..hamming_weight}

TernaryInit ==
    /\ lw = [pc |-> "idle"]
    /\ ev = EvIdle
    /\ mp = MpIdle

SampleVec ==
    /\ lw.pc = "idle"
    /\ \E n \in 0..MaxLen, h \in 0..(MaxLen + 1) :
        \E draws \in TerminatingDraws(n, h), bits \in 0..(Pow(2, Min(h, n)) - 1) :
            lw' = [pc |-> "sampled", h |-> h, before |-> Zeros(n),
                   out |-> Ternary_sample_vec(h, n, draws, bits)]
    /\ UNCHANGED <<ev, mp>>

SampleInto ==
    /\ lw.pc = "idle"
    /\ \E n \in 0..MaxLen, h \in 0..(MaxLen + 1) :
        \E draws \in TerminatingDraws(n, h), bits \in 0..(Pow(2, Min(h, n)) - 1) :
            LET out == [i \in 1..n |-> Prefilled]
            IN  lw' = [pc |-> "sampled", h |-> h, before |-> out,
                       out |-> Ternary_sample_into(h, out, draws, bits)]
    /\ UNCHANGED <<ev, mp>>

TernaryNext == SampleVec \/ SampleInto

SpecTernary == TernaryInit /\ [][TernaryNext]_vars

\* C15: with 1 <= h <= n the sampled slice has exactly h entries that were
\* written, each +1 or -1, and every other entry keeps its value (so a
\* sample_vec has exactly h nonzero entries); with h = 0 or h > n the
\* sampling fails
C15_TernaryWeight ==
    lw.pc = "sampled" =>
        LET n == Len(lw.before)
        IN  IF lw.h = 0 \/ lw.h > n THEN lw.out = Panicked
            ELSE /\ lw.out # Panicked
                 /\ Len(lw.out) = n
                 /\ Cardinality({i \in 1..n : lw.out[i] \in {1, -1}}) = lw.h
                 /\ \A i \in 1..n : lw.out[i] \in {1, -1} \/ lw.out[i] = lw.before[i]
                 /\ lw.before = Zeros(n) => HammingWeight(lw.out) = lw.h

C15_Witness ==
    /\ lw.pc = "sampled"
    /\ lw.h = 2
    /\ lw.before = <<Prefilled, Prefilled, Prefilled, Prefilled>>
    /\ lw.out = <<Prefilled, -1, Prefilled, 1>>

-----------------------------------------------------------------------------
(* AutomorphismMap (math/src/poly/automorphism.rs)                         *)

MaxLogN == 3
MaxK == 9

RECURSIVE BitAnd(_, _)
BitAnd(a, b) == IF a = 0 \/ b = 0 THEN 0 ELSE (a % 2) * (b % 2) + 2 * BitAnd(a \div 2, b \div 2)
RECURSIVE BitOr(_, _)
BitOr(a, b) ==
    IF a = 0 THEN b ELSE IF b = 0 THEN a
    ELSE Max(a % 2, b % 2) + 2 * BitOr(a \div 2, b \div 2)
RECURSIVE ilog2(_)
ilog2(n) == IF n <= 1 THEN 0 ELSE 1 + ilog2(n \div 2)

\* the for_each of AutomorphismMap::new from index i on: later writes to the
\* same slot replace earlier ones
RECURSIVE AutomorphismMapFill(_, _, _, _, _)
AutomorphismMapFill(map, i, k, mask, log_n) ==
    IF i >= Len(map) THEN map
    ELSE LET j == i * k
             sign == BitAnd(j \div Pow(2, log_n), 1)
         IN  AutomorphismMapFill([map EXCEPT ![BitAnd(j, mask) + 1] = BitOr(i * 2, sign)],
                                 i + 1, k, mask, log_n)

\* AutomorphismMap::new(ring_size, k)
AutomorphismMap_new_mutant(ring_size, k) ==
    LET kk == k % (2 * ring_size)
    IN  [map |-> [s \in 1..ring_size |->
                    LET from == {i \in 0..(ring_size - 1) : (i * kk) % ring_size = s - 1}
                    IN  IF from = {} THEN 0 ELSE 2 * (CHOOSE i \in from : TRUE)],
         k |-> kk]
AutomorphismMap_new(ring_size, k) ==
    LET mask == ring_size - 1
        log_n == ilog2(ring_size)
        kk == k % (2 * ring_size)
    IN  [map |-> AutomorphismMapFill(Zeros(ring_size), 0, kk, mask, log_n), k |-> kk]

\* AutomorphismMap::iter: (sign, idx) = (v & 1 == 1, v >> 1)
AutomorphismMap_iter(m) ==
    [s \in 1..Len(m.map) |-> [sign |-> BitAnd(m.map[s], 1) = 1, idx |-> m.map[s] \div 2]]

\* AutomorphismMap::apply(poly, neg) with neg the integer negation
AutomorphismMap_apply(m, poly) ==
    LET it == AutomorphismMap_iter(m)
    IN  [s \in 1..Len(it) |-> IF it[s].sign THEN -poly[it[s].idx + 1] ELSE poly[it[s].idx + 1]]

\* the reference automorphism of the tests, from index i on
RECURSIVE AutomorphismFrom(_, _, _, _)
AutomorphismFrom(out, input, i, k) ==
    LET n == Len(input)
    IN  IF i >= n THEN out
        ELSE LET j == (i * k) % (2 * n)
             IN  AutomorphismFrom([out EXCEPT ![(j % n) + 1] =
                                      IF j < n THEN input[i + 1] ELSE -input[i + 1]],
                                  input, i + 1, k)
automorphism(input, k) == AutomorphismFrom(Zeros(Len(input)), input, 0, k % (2 * Len(input)))

AutoInit ==
    /\ lw = [pc |-> "idle"]
    /\ ev = EvIdle
    /\ mp = MpIdle

\* the polynomials of the test (0, 1, ..., n-1) and a shifted copy
AutoPolys(n) == {[i \in 1..n |-> i - 1], [i \in 1..n |-> 2 * i + 1]}

AutomorphismApply ==
    /\ lw.pc = "idle"
    /\ \E log_n \in 0..MaxLogN, k \in (-MaxK)..MaxK :
        \E poly \in AutoPolys(Pow(2, log_n)) :
            lw' = [pc |-> "applied", ring_size |-> Pow(2, log_n), k |-> k, poly |-> poly,
                   out |-> AutomorphismMap_apply(AutomorphismMap_new(Pow(2, log_n), k), poly),
                   reference |-> automorphism(poly, k)]
    /\ UNCHANGED <<ev, mp>>

AutoNext == AutomorphismApply

SpecAuto == AutoInit /\ [][AutoNext]_vars

\* C16: for a power-of-two ring size N and an odd k, negative or not, the
\* applied map sends coefficient i of the polynomial to position
\* (i * k mod 2N) mod N, negated iff i * k mod 2N >= N, as the reference
\* automorphism does
C16_AutomorphismMap ==
    (lw.pc = "applied" /\ lw.k % 2 = 1) =>
        LET N == lw.ring_size
        IN  /\ Len(lw.out) = N
            /\ \A i \in 0..(N - 1) :
                  LET j == (i * (lw.k % (2 * N))) % (2 * N)
                  IN  lw.out[(j % N) + 1] = IF j >= N THEN -lw.poly[i + 1] ELSE lw.poly[i + 1]
            /\ lw.out = lw.reference

C16_Witness ==
    /\ lw.pc = "applied"
    /\ lw.ring_size = 8
    /\ lw.k = -3
    /\ lw.poly = <<0, 1, 2, 3, 4, 5, 6, 7>>
    /\ lw.out = <<0, 5, -2, -7, 4, -1, -6, 3>>

-----------------------------------------------------------------------------
(* lwe_key_switch on keys and outputs of any dimension                     *)

MaxRows == 6
MaxCols == 3

KsCallInit ==
    /\ lw = [pc |-> "idle"]
    /\ ev = EvIdle
    /\ mp = MpIdle

\* one call of lwe_key_switch: lwe_in of 1 or 2 mask elements, a key of any
\* number of rows and columns, an output of any length that is zero or
\* already holds a ciphertext
KeySwitchCall ==
    /\ lw.pc = "idle"
    /\ \E D \in KsDecomposers, n \in 1..2, rows \in 0..MaxRows, cols \in 1..MaxCols,
          out_len \in 1..MaxCols, seed \in 0..1, filled \in BOOLEAN :
        LET lwe_in == SeededRows(seed + 2, 1, n + 1, D.q)[1]
            lwe_ksk == SeededRows(seed, rows, cols, D.q)
            lwe_out == IF filled THEN SeededRows(seed + 4, 1, out_len, D.q)[1] ELSE Zeros(out_len)
        IN  lw' = [pc |-> "called", D |-> D, lwe_in |-> lwe_in, lwe_ksk |-> lwe_ksk,
                   cols |-> cols, before |-> lwe_out,
                   lwe_out |-> lwe_key_switch(lwe_out, lwe_in, lwe_ksk, D)]
    /\ UNCHANGED <<ev, mp>>

KsCallNext == KeySwitchCall

SpecKsCall == KsCallInit /\ [][KsCallNext]_vars

\* column c of the sum over every a_i and digit j of digit_j(a_i) * row i*d+j
KsRowSum(c) ==
    SumInts([r \in 1..Len(lw.lwe_ksk) |->
                decompose(lw.D, lw.lwe_in[((r - 1) \div lw.D.d) + 2])[((r - 1) % lw.D.d) + 1]
                    * lw.lwe_ksk[r][c]],
            Len(lw.lwe_ksk))

\* C17: the call fails unless the key has (len(lwe_in) - 1) * d rows and as
\* many columns as lwe_out has elements; otherwise lwe_out grows by the sum
\* of digit_j(a_i) times key row i*d+j, and by lwe_in[0] on element 0
C17_KeySwitchContract ==
    lw.pc = "called" =>
        IF Len(lw.lwe_ksk) # (Len(lw.lwe_in) - 1) * lw.D.d \/ Len(lw.before) # lw.cols
        THEN lw.lwe_out = Panicked
        ELSE /\ lw.lwe_out # Panicked
             /\ Len(lw.lwe_out) = Len(lw.before)
             /\ \A c \in 1..Len(lw.before) :
                    lw.lwe_out[c] = (lw.before[c] + KsRowSum(c)
                                        + (IF c = 1 THEN lw.lwe_in[1] ELSE 0)) % lw.D.q

C17_Witness ==
    /\ lw.pc = "called"
    /\ lw.lwe_out # Panicked
    /\ Len(lw.lwe_in) = 3
    /\ lw.D.d = 3
    /\ lw.lwe_in[1] # 0
    /\ lw.before # Zeros(Len(lw.before))
    /\ \E c \in 2..Len(lw.before) : KsRowSum(c) % lw.D.q # 0
    /\ lw.lwe_out # lw.before

-----------------------------------------------------------------------------
(* blind_rotation on any bucket contents                                   *)

MaxBrN == 3
BrModuli == {4, 8}

BrInit ==
    /\ lw = [pc |-> "idle"]
    /\ ev = EvIdle
    /\ mp = MpIdle

\* blind_rotation(.., g, w, q, gk_to_si, ..) for any assignment of the
\* secret indices 0..n-1 to the q buckets
BlindRotationCall ==
    /\ lw.pc = "idle"
    /\ \E q \in BrModuli, n \in 0..MaxBrN :
        \E dl \in [1..n -> 0..(q - 1)] :
            LET gk_to_si == [k \in 0..(q - 1) |-> BucketOf(k, dl, n)]
            IN  lw' = [pc |-> "rotated", g |-> MpParameters.g, q |-> q, n |-> n,
                       gk_to_si |-> gk_to_si,
                       steps |-> blind_rotation_steps(MpParameters.g, q, gk_to_si)]
    /\ UNCHANGED <<ev, mp>>

BrNext == BlindRotationCall

SpecBr == BrInit /\ [][BrNext]_vars

\* the m-th bucket blind_rotation visits is q - m: q-1 down to q/2+1, then
\* q/2, then q/2-1 down to 1, then 0; BrStart(m) is the position of its
\* first step when every bucket but the last is followed by one automorphism
RECURSIVE BrStart(_)
BrStart(m) == IF m = 1 THEN 1 ELSE BrStart(m - 1) + Len(lw.gk_to_si[lw.q - (m - 1)]) + 1

BrCount(k) == Cardinality({p \in 1..Len(lw.steps) : lw.steps[p].op = "auto" /\ lw.steps[p].k = k})

\* C19: blind_rotation visits the buckets q/2+j for j = q/2-1 down to 1,
\* then q/2, then j for j = q/2-1 down to 1, then 0, running the external
\* products of a bucket and then one automorphism: sigma_g after every
\* bucket of the two loops, sigma_{-g} after bucket q/2, none after bucket
\* 0; sigma_g runs 2 * (q/2 - 1) times and sigma_{-g} once for any buckets
C19_RotationOrder ==
    lw.pc = "rotated" =>
        LET q == lw.q
            q_by_2 == q \div 2
        IN  /\ Len(lw.steps) = BrStart(q) + Len(lw.gk_to_si[0]) - 1
            /\ \A m \in 1..q :
                  LET bucket == lw.gk_to_si[q - m]
                  IN  /\ \A x \in 1..Len(bucket) :
                            /\ lw.steps[BrStart(m) + x - 1].op # "auto"
                            /\ m < q => lw.steps[BrStart(m) + x - 1] = [op |-> "rgsw", si |-> bucket[x]]
                      /\ m < q =>
                            lw.steps[BrStart(m) + Len(bucket)]
                                = [op |-> "auto", k |-> IF m = q_by_2 THEN -lw.g ELSE lw.g]
            /\ BrCount(lw.g) = 2 * (q_by_2 - 1)
            /\ BrCount(-lw.g) = 1

C19_Witness ==
    /\ lw.pc = "rotated"
    /\ lw.q = 8
    /\ lw.gk_to_si[6] = <<0, 2>>
    /\ lw.gk_to_si[4] = <<1>>
    /\ Len(lw.steps) = 10
    /\ lw.steps[2] = [op |-> "rgsw", si |-> 0]
    /\ lw.steps[3] = [op |-> "rgsw", si |-> 2]
    /\ lw.steps[6] = [op |-> "rgsw", si |-> 1]
    /\ lw.steps[7] = [op |-> "auto", k |-> -5]

-----------------------------------------------------------------------------
(* Every LWE coordinate enters the blind rotation once                     *)

\* the positions of PbsSteps that multiply by RGSW ciphertext number i
PbsProducts(i) == {p \in 1..Len(PbsSteps) : PbsSteps[p] = [op |-> "rgsw", si |-> i]}

\* C20: in a pbs every index i of the key-switched ciphertext's mask lies in
\* exactly one bucket, once, the bucket being the dlog of its mod-switched
\* element; the rotation multiplies by RGSW ciphertext i exactly once and by
\* nothing else, and the last sub-step, which would read its ciphertext
\* number through bucket q/2, finds bucket 0 empty
C20_EveryCoordinateOnce ==
    ev.pc = "pbs_done" =>
        LET P == ev.info.parameters
            g_k_si == ev.run.g_k_si
        IN  /\ \A i \in 0..(P.lwe_n - 1) :
                  /\ Cardinality({k \in 0..(P.br_q - 1) :
                                    \E x \in 1..Len(g_k_si[k]) : g_k_si[k][x] = i}) = 1
                  /\ \A k \in 0..(P.br_q - 1) :
                        Cardinality({x \in 1..Len(g_k_si[k]) : g_k_si[k][x] = i}) <= 1
                  /\ \E x \in 1..Len(g_k_si[ev.info.g_k_dlog_map[ev.run.tracer.ct_br_q_mod[i + 2]]]) :
                        g_k_si[ev.info.g_k_dlog_map[ev.run.tracer.ct_br_q_mod[i + 2]]][x] = i
                  /\ Cardinality(PbsProducts(i)) = 1
            /\ Cardinality({p \in 1..Len(PbsSteps) : PbsSteps[p].op # "auto"}) = P.lwe_n
            /\ g_k_si[0] = <<>>

\* a pbs in which two coordinates share a bucket of the "-" branch
C20_Witness ==
    /\ ev.pc = "pbs_done"
    /\ ev.c_out # Panicked
    /\ ev.info.parameters.lwe_n = 2
    /\ \E k \in (ev.info.parameters.br_q \div 2)..(ev.info.parameters.br_q - 1) :
          ev.run.g_k_si[k] = <<0, 1>>
    /\ Cardinality(PbsProducts(1)) = 1

-----------------------------------------------------------------------------
(* The tables BoolEvaluator::new precomputes                                *)

\* coefficient i of the NAND test vector before the automorphism
NandCoefficient(P, i) ==
    IF i < 3 * (P.br_q \div 8) THEN RoundDiv(P.rlwe_q, 8) ELSE P.rlwe_q - RoundDiv(P.rlwe_q, 8)

\* C22: the stored NAND test vector has q/2 coefficients and is the vector
\* "round(Q/8) below 3*(q/8), Q - round(Q/8) from there on" under
\* X -> X^{-g} in X^{q/2} + 1: coefficient i sits at (-g*i mod q) mod q/2,
\* negated iff -g*i mod q >= q/2, so every stored entry is plus or minus a
\* coefficient and every position is filled once
C22_NandTestVector ==
    ev.pc = "new" =>
        LET P == ev.parameters
            q == P.br_q
            n == q \div 2
            stored == ev.pbs_info.nand_test_vec
        IN  /\ Len(stored) = n
            /\ \A i \in 0..(n - 1) :
                  LET j == (-P.g * i) % q
                  IN  stored[(j % n) + 1]
                        = IF j >= n THEN (P.rlwe_q - NandCoefficient(P, i)) % P.rlwe_q
                          ELSE NandCoefficient(P, i)
            /\ \A s \in 0..(n - 1) :
                  Cardinality({i \in 0..(n - 1) : ((-P.g * i) % q) % n = s}) = 1

C22_Witness ==
    /\ ev.pc = "new"
    /\ ev.parameters.br_q = 16
    /\ ev.pbs_info.nand_test_vec = <<12, 12, 85, 85, 85, 12, 12, 12>>
    /\ ev.pbs_info.nand_test_vec # nand_test_vec(ev.parameters)

\* C23: the dlog table has q entries and every odd a below q has an entry k
\* with g^k = a mod q when k < q/2 and -(g^(k - q/2)) = a mod q otherwise
C23_DlogTable ==
    ev.pc = "new" =>
        LET P == ev.parameters
            q == P.br_q
            map == ev.pbs_info.g_k_dlog_map
        IN  /\ DOMAIN map = 0..(q - 1)
            /\ \A a \in 1..(q - 1) :
                  a % 2 = 1 =>
                     /\ map[a] \in 0..(q - 1)
                     /\ IF map[a] < q \div 2 THEN mod_exponent(P.g, map[a], q) = a
                        ELSE (q - mod_exponent(P.g, map[a] - q \div 2, q)) % q = a

C23_Witness ==
    /\ ev.pc = "new"
    /\ ev.parameters.br_q = 16
    /\ ev.pbs_info.g_k_dlog_map[13] = 7
    /\ ev.pbs_info.g_k_dlog_map[3] = 15
    /\ ev.pbs_info.g_k_dlog_map[1] = 4

-----------------------------------------------------------------------------
(* Calls of the numeric helpers of pbs on any input                         *)

OpsInit ==
    /\ lw = [pc |-> "idle"]
    /\ ev = EvIdle
    /\ mp = MpIdle

\* ring sizes and the modulus of the helper calls
OpsRingSizes == {1, 2, 4}
OpsModulus == MpParameters.rlwe_q

\* sample_extract(lwe_out, rlwe_in, mod_op, index) on an RLWE ciphertext
\* (A, B) filled by a seeded PRNG, for every index below the ring size
SampleExtractCall ==
    /\ lw.pc = "idle"
    /\ \E N \in OpsRingSizes, seed \in 0..(MaxSeed + 2), sk \in 0..1 :
        \E index \in 0..(N - 1) :
            LET rlwe_in == PrngRows(seed, 0, 2, N, OpsModulus)
            IN  lw' = [pc |-> "extracted", rlwe_in |-> rlwe_in, index |-> index,
                       s |-> TernaryOfSeed(sk, N),
                       lwe_out |-> sample_extract(Zeros(N + 1), rlwe_in, OpsModulus, index)]
    /\ UNCHANGED <<ev, mp>>

\* SliceOps::slice_mod_switch_odd on one element: t = floor(a * delta);
\* round(a * delta) if t = 0, t | 1 otherwise
slice_mod_switch_odd_mutant(a, from_q, to_q) == BitOr((a * to_q) \div from_q, 1) % to_q
slice_mod_switch_odd(a, from_q, to_q) ==
    LET t == (a * to_q) \div from_q
    IN  IF t = 0 THEN RoundDiv(a * to_q, from_q) % to_q ELSE BitOr(t, 1) % to_q

\* the moduli (Q_ks, q) of the odd mod-switch
OpsSwitchModuli == {<<16, 8>>, <<32, 8>>, <<32, 16>>, <<24, 8>>, <<16, 16>>}

\* the odd mod-switch of pbs and the one of SliceOps on the same element
ModSwitchOddCall ==
    /\ lw.pc = "idle"
    /\ \E m \in OpsSwitchModuli :
        \E v \in 0..(m[1] - 1) :
            lw' = [pc |-> "switched", v |-> v, from_q |-> m[1], to_q |-> m[2],
                   odd_v |-> mod_switch_odd(v, m[1], m[2]),
                   sliced |-> slice_mod_switch_odd(v, m[1], m[2])]
    /\ UNCHANGED <<ev, mp>>

\* RingOps::poly_set_monomial: +X^e for e = exp mod 2N < N, else -X^(e-N)
poly_set_monomial(ring_size, exp, q) ==
    LET e == exp % (2 * ring_size)
    IN  [i \in 1..ring_size |->
            IF e < ring_size THEN (IF i - 1 = e THEN 1 ELSE 0)
            ELSE (IF i - 1 = e - ring_size THEN q - 1 ELSE 0)]

\* slice::rotate_right(k)
rotate_right(a, k) == [i \in 1..Len(a) |-> a[((i - 1 - k) % Len(a)) + 1]]

\* RingOps::poly_mul_monomial: rotate right by exp & (N - 1), then negate
\* a[..exp] if exp < N and a[exp - N..] otherwise
poly_mul_monomial_mutant(a, exp, q) ==
    LET ring_size == Len(a)
        e == exp % (2 * ring_size)
        r == rotate_right(a, BitAnd(e, ring_size - 1))
    IN  [i \in 1..ring_size |-> IF i - 1 < e THEN mod_neg(r[i], q) ELSE r[i]]
poly_mul_monomial(a, exp, q) ==
    LET ring_size == Len(a)
        e == exp % (2 * ring_size)
        r == rotate_right(a, BitAnd(e, ring_size - 1))
    IN  [i \in 1..ring_size |->
            IF e < ring_size THEN (IF i - 1 < e THEN mod_neg(r[i], q) ELSE r[i])
            ELSE (IF i - 1 >= e - ring_size THEN mod_neg(r[i], q) ELSE r[i])]

\* poly_mul_monomial(a, exp), then poly_mul_monomial(.., -exp), next to
\* the monomial poly_set_monomial(exp) writes
PolyMulMonomialCall ==
    /\ lw.pc = "idle"
    /\ \E N \in OpsRingSizes, seed \in 0..MaxSeed, exp \in (-MaxK)..MaxK :
        LET a == PrngRows(seed, 0, 1, N, OpsModulus)[1]
            out == poly_mul_monomial(a, exp, OpsModulus)
        IN  lw' = [pc |-> "multiplied", a |-> a, exp |-> exp,
                   monomial |-> poly_set_monomial(N, exp, OpsModulus),
                   out |-> out, back |-> poly_mul_monomial(out, -exp, OpsModulus)]
    /\ UNCHANGED <<ev, mp>>

OpsNext == SampleExtractCall \/ ModSwitchOddCall \/ PolyMulMonomialCall

SpecOps == OpsInit /\ [][OpsNext]_vars

\* C21: sample_extract at `index` writes out[0] = B[index], out[1+i] =
\* A[index-i] for i <= index and out[1+i] = -A[N+index-i] mod Q for
\* i > index (at index 0: B[0], A[0], then -A[N-i]); the LWE ciphertext it
\* writes has, under the same secret, the phase of coefficient `index`
C21_SampleExtract ==
    lw.pc = "extracted" =>
        LET A == lw.rlwe_in[1]
            B == lw.rlwe_in[2]
            N == Len(A)
            out == lw.lwe_out
        IN  /\ out # Panicked
            /\ Len(out) = N + 1
            /\ out[1] = B[lw.index + 1]
            /\ \A i \in 0..(N - 1) :
                  out[i + 2] = IF i <= lw.index THEN A[lw.index - i + 1]
                               ELSE (OpsModulus - A[N + lw.index - i + 1]) % OpsModulus
            /\ lw.index = 0 =>
                  /\ out[2] = A[1]
                  /\ \A i \in 1..(N - 1) : out[i + 2] = (OpsModulus - A[N - i + 1]) % OpsModulus
            /\ decrypt_lwe(out, lw.s, OpsModulus)
                  = (B[lw.index + 1] - poly_mul(A, lw.s, OpsModulus)[lw.index + 1]) % OpsModulus

C21_Witness ==
    /\ lw.pc = "extracted"
    /\ Len(lw.rlwe_in[1]) = 4
    /\ lw.index = 2
    /\ lw.lwe_out[2] = lw.rlwe_in[1][3]
    /\ lw.lwe_out[5] = (OpsModulus - lw.rlwe_in[1][4]) % OpsModulus
    /\ lw.lwe_out[5] # lw.rlwe_in[1][4]
    /\ HammingWeight(lw.s) > 0

\* the rule "t = floor(a * q / Q_ks); round(a * q / Q_ks) if t = 0, else t | 1"
RoundAtZeroRule(v, from_q, to_q) ==
    LET t == (v * to_q) \div from_q
    IN  IF t = 0 THEN RoundDiv(v * to_q, from_q) ELSE BitOr(t, 1)

\* C24 as stated: the odd mod-switch of pbs follows the round-at-zero rule
C24_AsStated ==
    lw.pc = "switched" => lw.odd_v = RoundAtZeroRule(lw.v, lw.from_q, lw.to_q)

\* C24: the odd mod-switch of pbs maps a to t = floor(a * q / Q_ks) when t
\* is odd and to t + 1 when t is even, so to 1 when t = 0; it is
\* SliceOps::slice_mod_switch_odd that maps a to round(a * q / Q_ks) when
\* t = 0 and to t | 1 otherwise, and the two differ exactly where that
\* rounding gives 0
C24_OddModSwitch ==
    lw.pc = "switched" =>
        LET t == (lw.v * lw.to_q) \div lw.from_q
        IN  /\ lw.odd_v = IF t % 2 = 1 THEN t ELSE t + 1
            /\ t # 0 => lw.odd_v = BitOr(t, 1)
            /\ t = 0 => lw.odd_v = 1
            /\ lw.sliced = RoundAtZeroRule(lw.v, lw.from_q, lw.to_q) % lw.to_q
            /\ (lw.sliced # lw.odd_v) <=> (2 * lw.v * lw.to_q < lw.from_q)

C24_Witness ==
    /\ lw.pc = "switched"
    /\ lw.v = 0
    /\ lw.odd_v = 1
    /\ lw.sliced = 0

\* C25: for every v in [0, Q_ks) the odd mod-switch of pbs is odd and in
\* [1, q - 1], an index of the dlog table at which an odd residue has its
\* entry
C25_OddInRange ==
    lw.pc = "switched" =>
        /\ lw.odd_v % 2 = 1
        /\ lw.odd_v >= 1
        /\ lw.odd_v <= lw.to_q - 1
        /\ lw.odd_v \in DOMAIN DlogLoop(MpParameters.g, lw.to_q, lw.to_q \div 2)

C25_Witness ==
    /\ lw.pc = "switched"
    /\ lw.v = lw.from_q - 1
    /\ lw.odd_v = lw.to_q - 1
    /\ lw.from_q > lw.to_q

\* C30: poly_mul_monomial(a, exp) is the negacyclic product of a with the
\* monomial of poly_set_monomial(exp), which is X^e for e = exp mod 2N < N
\* and -X^(e - N) otherwise; multiplying by exp and then by -exp restores a
C30_MonomialProduct ==
    lw.pc = "multiplied" =>
        LET N == Len(lw.a)
            e == lw.exp % (2 * N)
        IN  /\ lw.out = poly_mul(lw.a, lw.monomial, OpsModulus)
            /\ \A i \in 0..(N - 1) :
                  lw.monomial[i + 1] = IF e < N /\ i = e THEN 1
                                       ELSE IF e >= N /\ i = e - N THEN OpsModulus - 1 ELSE 0
            /\ lw.back = lw.a

C30_Witness ==
    /\ lw.pc = "multiplied"
    /\ Len(lw.a) = 4
    /\ lw.exp = -3
    /\ lw.monomial = <<0, OpsModulus - 1, 0, 0>>
    /\ lw.out # lw.a
    /\ lw.back = lw.a

\* C26: step 1 of pbs replaces each coordinate v in [0, Q) of the input by
\* round(v * Q_ks / Q), and the result is a residue in [0, Q_ks) for every
\* v: a v close to Q wraps to 0 and never yields Q_ks itself.
C26_ModDownResidue ==
    ev.pc = "pbs_done" =>
        LET P == ev.info.parameters
            lwe_in == ev.run.tracer.ct_rlwe_q_mod
            out == ev.run.tracer.ct_lwe_q_mod
        IN  /\ Len(out) = Len(lwe_in)
            /\ \A i \in 1..Len(out) :
                  /\ lwe_in[i] \in 0..(P.rlwe_q - 1)
                  /\ out[i] = RoundDiv(lwe_in[i] * P.lwe_q, P.rlwe_q) % P.lwe_q
                  /\ out[i] \in 0..(P.lwe_q - 1)

\* the monomial pbs computed for the key-switched ciphertext of this run
PbsGbMonomial == pbs_gb_monomial(ev.run.tracer.ct_lwe_q_mod_after_ksk, ev.info)

\* C27: pbs seeds the accumulator with testvec * X^(g*b mod q) in the ring
\* X^(q/2) + 1: the exponent handed to monomial_mul is below q/2, so that
\* its assertion holds, the sign is negative exactly when g*b mod q >= q/2,
\* and coefficient i of the product sits at position f*i of the B-half, f
\* the embedding factor, every other coefficient of the B-half and the
\* whole A-half being zero.
C27_SeedAccumulator ==
    ev.pc = "pbs_done" =>
        LET P == ev.info.parameters
            br_qby2 == P.br_q \div 2
            f == ev.info.embedding_factor
            gb == PbsGbMonomial
            product == poly_mul(ev.info.nand_test_vec,
                                poly_set_monomial(br_qby2, gb.g_times_b, P.rlwe_q), P.rlwe_q)
        IN  /\ gb.g_times_b = (P.g * ev.run.tracer.ct_br_q_mod[1]) % P.br_q
            /\ gb.gb_monomial_exp < br_qby2
            /\ gb.gb_monomial_exp = gb.g_times_b % br_qby2
            /\ gb.gb_monomial_sign = FALSE <=> gb.g_times_b >= br_qby2
            /\ ev.run.acc0 # Panicked
            /\ ev.run.acc0[1] = Zeros(P.rlwe_n)
            /\ Len(ev.run.acc0[2]) = P.rlwe_n
            /\ \A j \in 0..(P.rlwe_n - 1) :
                  ev.run.acc0[2][j + 1] =
                      IF j % f = 0 /\ j \div f < br_qby2 THEN product[(j \div f) + 1] ELSE 0

\* pbs ran with embedding factor 2 and q = 8 on a ciphertext whose b gives
\* g*b mod q = 7: the monomial is -X^3, and the B-half of the accumulator
\* holds the four coefficients of the product at the even positions
C27_Witness ==
    /\ ev.pc = "pbs_done"
    /\ ev.info.embedding_factor = 2
    /\ ev.info.parameters.br_q = 8
    /\ PbsGbMonomial.g_times_b = 7
    /\ PbsGbMonomial.gb_monomial_exp = 3
    /\ PbsGbMonomial.gb_monomial_sign = FALSE
    /\ ev.run.acc0 = <<Zeros(8), <<85, 0, 85, 0, 12, 0, 85, 0>>>>

\* ---------------------------------------------------------------------
\* ServerKeyEvaluationDomain::from(&SeededMultiPartyServerKey): the RGSW
\* ciphertexts of the aggregated key, of RGSW x RGSW depth, are cut down to
\* RLWE x RGSW depth and sent to the evaluation domain

\* one ciphertext: the assertion on its dimension, then the four izip loops
\* over eval_ct_i_out.iter_rows_mut().skip(..).take(..) and
\* ct_i_in.iter_rows().skip(..).take(..); a loop ends with its shorter
\* side, and a row no loop reaches keeps the zeros of M::zeros
rgsw_ct_to_evaluation_domain_mutant(ct_i_in, rgswrgsw_d, rlrg_d, rlwe_n) ==
    IF Len(ct_i_in) # rgswrgsw_d[1] * 2 + rgswrgsw_d[2] * 2 \/ Len(ct_i_in[1]) # rlwe_n
    THEN Panicked
    ELSE [k \in 1..(rlrg_d[1] * 2 + rlrg_d[2] * 2) |->
             IF k <= Len(ct_i_in) THEN ntt_forward(ct_i_in[k]) ELSE Zeros(rlwe_n)]
rgsw_ct_to_evaluation_domain(ct_i_in, rgswrgsw_d, rlrg_d, rlwe_n) ==
    LET rgsw_ct_rows_in == rgswrgsw_d[1] * 2 + rgswrgsw_d[2] * 2
        rgsw_ct_rows_out == rlrg_d[1] * 2 + rlrg_d[2] * 2
        from(k) ==
            IF k < rlrg_d[1] THEN k
            ELSE IF k < 2 * rlrg_d[1] THEN rgswrgsw_d[1] + (k - rlrg_d[1])
            ELSE IF k < 2 * rlrg_d[1] + rlrg_d[2]
                 THEN rgswrgsw_d[1] * 2 + (k - 2 * rlrg_d[1])
            ELSE rgswrgsw_d[1] * 2 + rgswrgsw_d[2] + (k - 2 * rlrg_d[1] - rlrg_d[2])
    IN  IF Len(ct_i_in) # rgsw_ct_rows_in \/ Len(ct_i_in[1]) # rlwe_n THEN Panicked
        ELSE [k \in 1..rgsw_ct_rows_out |->
                 IF from(k - 1) < rgsw_ct_rows_in THEN ntt_forward(ct_i_in[from(k - 1) + 1])
                 ELSE Zeros(rlwe_n)]

\* value.rgsw_cts.iter().map(..).collect_vec(): the first failing assertion
\* ends the conversion
rgsw_cts_to_evaluation_domain(rgsw_cts, rgswrgsw_d, rlrg_d, rlwe_n) ==
    LET out == [i \in 1..Len(rgsw_cts) |->
                   rgsw_ct_to_evaluation_domain(rgsw_cts[i], rgswrgsw_d, rlrg_d, rlwe_n)]
    IN  IF \E i \in 1..Len(out) : out[i] = Panicked THEN Panicked ELSE out

\* the decomposition counts (d_a, d_b) of the parameter sets
RgswDepths == {<<1, 1>>, <<1, 2>>, <<2, 1>>, <<2, 2>>}

\* ring size of the converted keys
RgswRingSize == MpParameters.rlwe_n

RgswInit ==
    /\ lw = LwIdle
    /\ ev = EvIdle
    /\ mp = [pc |-> "aggregated"]

\* the conversion of a key of one or two RGSW ciphertexts whose last
\* ciphertext has `rows` rows
RgswToEvaluationDomainCall ==
    /\ mp.pc = "aggregated"
    /\ \E rgswrgsw_d \in RgswDepths, rlrg_d \in RgswDepths, seed \in 0..MaxSeed,
          count \in 1..2 :
        \E rows \in 1..(2 * rgswrgsw_d[1] + 2 * rgswrgsw_d[2] + 1) :
            LET rows_in == 2 * rgswrgsw_d[1] + 2 * rgswrgsw_d[2]
                rgsw_cts == [i \in 1..count |->
                                SeededRows(seed + i, IF i = count THEN rows ELSE rows_in,
                                           RgswRingSize, MpParameters.rlwe_q)]
            IN  mp' = [pc |-> "converted", rgswrgsw_d |-> rgswrgsw_d, rlrg_d |-> rlrg_d,
                       rgsw_cts |-> rgsw_cts,
                       out |-> rgsw_cts_to_evaluation_domain(rgsw_cts, rgswrgsw_d, rlrg_d,
                                                             RgswRingSize)]
    /\ UNCHANGED <<lw, ev>>

RgswNext == RgswToEvaluationDomainCall

SpecRgsw == RgswInit /\ [][RgswNext]_vars

\* C28: the conversion turns each RGSW ciphertext of 2*dA' + 2*dB' rows into
\* one of 2*dA + 2*dB rows: for dA <= dA' and dB <= dB', row j of each of the
\* four blocks (A and B parts of RLWE'(-s*m), A and B parts of RLWE'(m)) is
\* the forward NTT of row j of the corresponding input block, for j < dA
\* respectively j < dB, and every other input row is dropped; the conversion
\* fails if an input does not have 2*dA' + 2*dB' rows.
C28_RgswRowsDropped ==
    mp.pc = "converted" =>
        LET dAin == mp.rgswrgsw_d[1]
            dBin == mp.rgswrgsw_d[2]
            dA == mp.rlrg_d[1]
            dB == mp.rlrg_d[2]
            BlockIn == <<0, dAin, 2 * dAin, 2 * dAin + dBin>>
            BlockOut == <<0, dA, 2 * dA, 2 * dA + dB>>
            Depth == <<dA, dA, dB, dB>>
        IN  /\ (\E i \in 1..Len(mp.rgsw_cts) : Len(mp.rgsw_cts[i]) # 2 * dAin + 2 * dBin)
                  => mp.out = Panicked
            /\ (\A i \in 1..Len(mp.rgsw_cts) : Len(mp.rgsw_cts[i]) = 2 * dAin + 2 * dBin)
                  => /\ mp.out # Panicked
                     /\ Len(mp.out) = Len(mp.rgsw_cts)
                     /\ \A i \in 1..Len(mp.out) : Len(mp.out[i]) = 2 * dA + 2 * dB
                     /\ (dA <= dAin /\ dB <= dBin) =>
                           \A i \in 1..Len(mp.out) : \A b \in 1..4 : \A j \in 0..(Depth[b] - 1) :
                               mp.out[i][BlockOut[b] + j + 1] =
                                   ntt_forward(mp.rgsw_cts[i][BlockIn[b] + j + 1])

\* a key of two ciphertexts of depth (2, 2), eight rows each, is converted
\* to depth (1, 1): rows 0, 2, 4 and 6 are kept, four rows are dropped
C28_Witness ==
    /\ mp.pc = "converted"
    /\ mp.rgswrgsw_d = <<2, 2>>
    /\ mp.rlrg_d = <<1, 1>>
    /\ Len(mp.rgsw_cts) = 2
    /\ mp.out # Panicked
    /\ mp.out[2] = <<ntt_forward(mp.rgsw_cts[2][1]), ntt_forward(mp.rgsw_cts[2][3]),
                     ntt_forward(mp.rgsw_cts[2][5]), ntt_forward(mp.rgsw_cts[2][7])>>
    /\ \A r, s \in 1..8 : r # s => mp.rgsw_cts[2][r] # mp.rgsw_cts[2][s]

\* ---------------------------------------------------------------------
\* A sequence of gates on one evaluator: scratch_memory.lwe_vector is
\* created by ScratchMemory::new and afterwards holds what the last pbs
\* left in it

\* seeds of the input ciphertexts of a gate
GateSeeds == {0, 1, 2}

GatesInit ==
    /\ lw = LwIdle
    /\ mp = MpIdle
    /\ \E sk_lwe \in TernaryVectors(MpParameters.lwe_n) :
        LET P == [k \in {"rlwe_q", "lwe_q", "br_q", "rlwe_n", "lwe_n", "g", "logb_lwe", "d_lwe"}
                     |-> MpParameters[k]]
            info == BoolEvaluator_new(P)
            ck == [sk_rlwe |-> TernaryOfSeed(1, P.rlwe_n), sk_lwe |-> sk_lwe]
            rows == P.rlwe_n * P.d_lwe
        IN  ev = [pc |-> "gates", info |-> info, ck |-> ck,
                  sk |-> server_key(info, ck, SeededRows(1, rows, P.lwe_n, P.lwe_q),
                                    ErrorPattern(1, rows)),
                  lwe_vector |-> Zeros(P.lwe_n + 1), on_entry |-> Zeros(P.lwe_n + 1),
                  c0 |-> NoCt, c1 |-> NoCt, c_out |-> NoCt, fresh |-> NoKey, gates |-> 0]

\* evaluator.nand(c0, c1, server_key) on the scratch vector the evaluator
\* holds; pbs leaves the key-switched ciphertext in it
GateNand ==
    /\ ev.pc = "gates"
    /\ ev.gates < MaxGates
    /\ \E s0 \in GateSeeds, s1 \in GateSeeds,
          fresh \in PbsFreshSample(ev.info.parameters.rlwe_n, ev.info.parameters.rlwe_q) :
        LET P == ev.info.parameters
            c0 == SeededRows(s0, 1, P.rlwe_n + 1, P.rlwe_q)[1]
            c1 == SeededRows(s1 + 3, 1, P.rlwe_n + 1, P.rlwe_q)[1]
            run == nand_scratch(ev.info, c0, c1, ev.sk, fresh, ev.lwe_vector)
        IN  ev' = [ev EXCEPT !.pc = IF run.lwe_out = Panicked THEN "panicked" ELSE "gates",
                             !.c0 = c0, !.c1 = c1, !.fresh = fresh, !.c_out = run.lwe_out,
                             !.on_entry = ev.lwe_vector,
                             !.lwe_vector = IF run.lwe_out = Panicked THEN ev.lwe_vector
                                            ELSE run.tracer.ct_lwe_q_mod_after_ksk,
                             !.gates = ev.gates + 1]
    /\ UNCHANGED <<lw, mp>>

GatesNext == GateNand

SpecGates == GatesInit /\ [][GatesNext]_vars

====
